---- MODULE Spec2Model ----
(***************************************************************************)
(* TickTick MCP server: TokenManager (auth.ts), TickTickClient.request     *)
(* (ticktick-client.ts) and the inbox resolver getInboxProjectId.          *)
(*                                                                         *)
(* Text is a sequence of one-character strings; a fixed phrase of the      *)
(* source is kept as one element.  A JavaScript number is a record that    *)
(* is either NaN or carries an integer.                                    *)
(***************************************************************************)
EXTENDS Integers, Sequences, FiniteSets, TLC

\* ------------------------------------------------------------------ bounds
\* The clock (epoch seconds) runs over 0..MaxNow.
MaxNow == 2

\* The tasks one tool call collects.
MaxTasks == 3

\* The fetcher calls of one TtlCache.
MaxFetches == 3

\* The tasks one filterTasks call is given.
MaxFilterTasks == 3

\* The number of getInboxProjectId calls of one process.
NumCallers == 3

\* ------------------------------------------------------- program constants
REFRESH_MARGIN_SECS == 60

\* The longest body text an error message quotes in full.
SNIPPET_MAX == 200

\* ------------------------------------------------------- JavaScript values
\* null / "not found": distinct from every text, the empty text included.
NULL == <<"<null>">>

Digits == <<"0", "1", "2", "3", "4", "5", "6", "7", "8", "9">>

IsDigit(c) == \E i \in 1..10 : Digits[i] = c

DigitVal(c) == (CHOOSE i \in 1..10 : Digits[i] = c) - 1

AllDigits(s) == \A i \in 1..Len(s) : IsDigit(s[i])

RECURSIVE DecimalValue(_)
DecimalValue(s) ==
  IF s = <<>> THEN 0
  ELSE DecimalValue(SubSeq(s, 1, Len(s) - 1)) * 10 + DigitVal(s[Len(s)])

Num(n) == [nan |-> FALSE, n |-> n]

NaN == [nan |-> TRUE, n |-> 0]

\* Number(text | null): null and "" are 0, a decimal numeral (optionally
\* signed) is its value, anything else is NaN.
Number(s) ==
  IF s = NULL \/ s = <<>> THEN Num(0)
  ELSE IF AllDigits(s) THEN Num(DecimalValue(s))
  ELSE IF Len(s) > 1 /\ s[1] = "-" /\ AllDigits(Tail(s))
       THEN Num(0 - DecimalValue(Tail(s)))
  ELSE NaN

\* String(integer): the decimal numeral.
RECURSIVE String(_)
String(n) ==
  IF n < 0 THEN <<"-">> \o String(0 - n)
  ELSE IF n < 10 THEN <<Digits[n + 1]>>
  ELSE String(n \div 10) \o <<Digits[(n % 10) + 1]>>

\* a < b on JavaScript numbers: false as soon as one side is NaN.
NumLt(a, b) == ~a.nan /\ ~b.nan /\ a.n < b.n

NumMinus(a, k) == IF a.nan THEN NaN ELSE Num(a.n - k)

\* Template interpolation of a JavaScript number.
NumToString(a) == IF a.nan THEN <<"N", "a", "N">> ELSE String(a.n)

\* JavaScript truthiness of string | null.
Truthy(v) == v # NULL /\ v # <<>>

\* JSON values of a token response body.
Undefined == [type |-> "undefined"]

JStr(s) == [type |-> "string", s |-> s]

JNum(n) == [type |-> "number", n |-> n]

\* ------------------------------------------------------------- error kinds
ReauthGuidance == "Run ticktick-mcp-auth to re-authorize."

AuthError(message) == [kind |-> "AuthError", message |-> message]

TickTickApiError(status, message) ==
  [kind |-> "TickTickApiError", status |-> status,
   message |-> <<"TickTick API error (">> \o String(status) \o <<"): ">> \o message]

TickTickRateLimitError(retryAfter) ==
  [kind |-> "TickTickRateLimitError", status |-> 429, retryAfter |-> retryAfter,
   message |-> <<"TickTick API error (">> \o String(429) \o <<"): ">>
               \o <<"Rate limited. Retry after ">> \o NumToString(retryAfter)
               \o <<" seconds.">>]

\* A rejected fetch (network failure, or the AbortSignal.timeout firing).
TransportError(name) == [kind |-> name]

\* A rejected keychain.set.
KeychainError == [kind |-> "KeychainError"]

Ok(value) == [kind |-> "ok", value |-> value]

\* Mutant: no error class extends another of the program's classes.
ExtendsFlat(cls) == IF cls = "ok" \/ cls = "none" THEN "none" ELSE "Error"

\* The class a class extends.
Extends(cls) ==
  CASE cls = "TickTickRateLimitError" -> "TickTickApiError"
    [] cls \in {"TickTickApiError", "AuthError", "KeychainError", "TypeError",
                "TimeoutError", "ZodError", "DOMException"} -> "Error"
    [] OTHER -> "none"

\* e instanceof cls
InstanceOf(e, cls) ==
  \/ e.kind = cls
  \/ Extends(e.kind) = cls
  \/ Extends(Extends(e.kind)) = cls

NoOutcome == [kind |-> "none"]

\* ---------------------------------------------------------------- state
\* store: the SecretStore (KeychainLike), account name -> text | null.
\* now:   the wall clock, epoch seconds (Math.floor(Date.now() / 1000)).
\* st:    per logical call: position, locals, and what the call has done.
VARIABLES store, now, st

\* The inbox resolver of one client.
\* inboxId:     the in-memory cell, text | null.
\* pending:     the pending-discovery marker: 0, or the index in `promises`
\*              of the shared deferred result.
\* promises:    the deferred results created so far.
\* caller:      per getInboxProjectId call: position, locals, result.
\* probes:      sentinel creation / completion / persist requests issued.
\* serverInbox: the identifier the API gives un-targeted tasks.
VARIABLES inboxId, pending, promises, caller, probes, serverInbox

\* The tool layer, the TtlCache and filterTasks.
\* tool:  one tool handler invocation: position, locals, client calls made.
\* cache: one TtlCache with its clock and the gets made of it.
\* filt:  one filterTasks application: its arguments and its result.
VARIABLES tool, cache, filt

\* The macOS keychain under one Keychain.set and one Keychain.get, and the
\* authorization CLI.
\* kc:  the security commands of one set and one get of an account.
\* cli: one run of the authorization flow: callback server, timer, result.
VARIABLES kc, cli

cliVars == <<kc, cli>>

tokenVars == <<now, st>>

toolVars == <<tool, cache, filt>>

inboxVars == <<inboxId, pending, promises, caller, probes, serverInbox>>

vars == <<store, now, st, inboxId, pending, promises, caller, probes, serverInbox,
          tool, cache, filt, kc, cli>>

Accounts == {"access_token", "expires_at", "refresh_token", "client_secret", "inbox_id"}

Procs == {"p1", "p2"}

NoData == [access_token |-> Undefined, refresh_token |-> Undefined, expires_in |-> Undefined]

NoTokenResponse == [ok |-> FALSE, parses |-> FALSE, body |-> NoData]

Idle ==
  [pc |-> "idle", op |-> "none", isRetry |-> FALSE,
   accessToken |-> NULL, expiresAt |-> NULL, refreshToken |-> NULL, clientSecret |-> NULL,
   data |-> NoData, nowGvat |-> 0, nowRefresh |-> 0, token |-> NULL,
   outcome |-> NoOutcome,
   nFetch |-> 0, nTokenFetch |-> 0, nGvat |-> 0, nForce |-> 0, nSet |-> 0, nRefresh |-> 0,
   events |-> <<>>, responses |-> <<>>, tokenResponse |-> NoTokenResponse,
   before |-> [a \in Accounts |-> NULL]]

\* ----------------------------------------------------------- environment
ExpiryTimes == {0} \cup ((REFRESH_MARGIN_SECS - 1)..(REFRESH_MARGIN_SECS + MaxNow + 1))

InitialStores ==
  {[a \in Accounts |->
      CASE a = "access_token" -> at
        [] a = "expires_at" -> ea
        [] a = "refresh_token" -> rt
        [] a = "client_secret" -> cs
        [] OTHER -> NULL] :
     at \in {NULL, <<>>, <<"A">>},
     ea \in {NULL, <<>>, <<"x">>} \cup {String(t) : t \in ExpiryTimes},
     rt \in {NULL, <<"R">>},
     cs \in {NULL, <<"S">>}}

\* What the OAuth token endpoint may answer.
TokenBodies ==
  [access_token : {Undefined, JStr(<<"B">>), JNum(7)},
   refresh_token : {Undefined, JStr(<<"Q">>), JStr(<<>>)},
   expires_in : {Undefined, JStr(<<"9">>), JNum(30), JNum(3600)}]

TokenResponses ==
  {[ok |-> FALSE, parses |-> TRUE, body |-> NoData],
   [ok |-> TRUE, parses |-> FALSE, body |-> NoData]}
  \cup {[ok |-> TRUE, parses |-> TRUE, body |-> b] : b \in TokenBodies}

\* What the task API may answer: status, body text, Retry-After header.
\* A body of n characters that is no JSON text.
Garbage(n) == [i \in 1..n |-> "X"]

ApiBodies ==
  {<<>>, <<"[", "]">>, <<"<", "h", ">">>, Garbage(SNIPPET_MAX), Garbage(SNIPPET_MAX + 1)}

ApiResponses ==
  {[status |-> 200, text |-> x, retryAfter |-> NULL] : x \in ApiBodies}
  \cup {[status |-> 201, text |-> <<"<", "h", ">">>, retryAfter |-> NULL]}
  \cup {[status |-> 401, text |-> <<"Unauthorized">>, retryAfter |-> NULL]}
  \cup {[status |-> 429, text |-> <<"Rate limited">>, retryAfter |-> h] :
          h \in {NULL, <<"3", "0">>, <<>>, <<"s", "o", "o", "n">>}}
  \cup {[status |-> 500, text |-> <<"Internal Server Error">>, retryAfter |-> NULL]}

\* The exchange that ended without a response.
NoResponse == [status |-> 0, text |-> <<>>, retryAfter |-> NULL]

\* How a rejected fetch shows: a network failure or the deadline.
TransportFailures == {"TypeError", "TimeoutError"}

\* keychain.set: done, or rejected with the old value kept or already deleted.
SetOutcomes == {"ok", "failed_kept", "failed_deleted"}

\* ------------------------------------------------- TokenRefreshResponse
TokenRefreshResponse(body) ==
  /\ body.access_token.type = "string"
  /\ body.refresh_token.type \in {"string", "undefined"}
  /\ body.expires_in.type = "number"

\* ----------------------------------------------------------- JSON.parse
\* The bodies the environment sends that are JSON texts.
JsonParses(text) == text \in {<<"[", "]">>, <<"{", "}">>, <<"n", "u", "l", "l">>}

\* ========================================================== InboxResolver
Callers == 1..NumCallers

InboxIds == {<<"i", "1">>, <<"i", "2">>}

\* A call not yet made.  Besides its position and locals a call keeps what
\* it found when it was made (the memory cell, the persisted value, the
\* identifier an earlier call had returned by then) and the I/O it has issued.
NotCalled == [pc |-> "idle", persisted |-> NULL, attached |-> 0, found |-> NULL,
              result |-> NoOutcome, cold |-> FALSE,
              memoryAtCall |-> NULL, persistedAtCall |-> NULL, returnedBefore |-> NULL,
              io |-> [reads |-> 0, writes |-> 0, requests |-> 0],
              cleanupFailed |-> FALSE, persistFailed |-> FALSE]

\* The resolver as constructed: nothing in memory, no discovery pending.
InboxIdle ==
  /\ inboxId = NULL
  /\ pending = 0
  /\ promises = <<>>
  /\ caller = [c \in Callers |-> NotCalled]
  /\ probes = [create |-> 0, complete |-> 0, persist |-> 0,
               cleanupFailed |-> 0, persistFailed |-> 0]
  /\ serverInbox \in InboxIds

SetCaller(c, r) ==
  caller' = [caller EXCEPT ![c] = r] /\ UNCHANGED tokenVars /\ UNCHANGED toolVars
  /\ UNCHANGED cliVars

Resolved(c, id) == [caller[c] EXCEPT !.pc = "done", !.result = Ok(id)]

DiscoveryFailed == [kind |-> "Error"]

\* The identifier a call has returned so far, if any has.
Returned ==
  LET done == {d \in Callers : caller[d].pc = "done" /\ caller[d].result.kind = "ok"} IN
  IF done = {} THEN NULL ELSE caller[CHOOSE d \in done : TRUE].result.value

\* Mutant: the memory cell is never taken as filled.
MemoryHitNever(id) == FALSE

\* Step 1: an in-memory cached value exists.
MemoryHit(id) == Truthy(id)

\* Mutant: the persisted value is never taken as present.
PersistedHitNever(v) == FALSE

\* Step 2: a persisted value is present.
PersistedHit(v) == Truthy(v)

\* Mutant: a failed discovery keeps its marker.
MarkerKeptOnFailure(m) == m

\* Step 4, creation failed: the pending marker is cleared.
MarkerAfterFailure(m) == 0

\* Step 1: the in-memory cell answers, or the persisted value is asked for.
GetInboxProjectId(c) ==
  /\ caller[c].pc = "idle"
  /\ LET s == [caller[c] EXCEPT !.cold = (inboxId = NULL /\ store["inbox_id"] = NULL),
                                !.memoryAtCall = inboxId,
                                !.persistedAtCall = store["inbox_id"],
                                !.returnedBefore = Returned] IN
       SetCaller(c, IF MemoryHit(inboxId)
                    THEN [s EXCEPT !.pc = "done", !.result = Ok(inboxId)]
                    ELSE [s EXCEPT !.pc = "read", !.io.reads = @ + 1])
  /\ UNCHANGED <<store, inboxId, pending, promises, probes, serverInbox>>

\* Step 2: the SecretStore answers the read of the persisted value.
InboxRead(c) ==
  /\ caller[c].pc = "read"
  /\ SetCaller(c, [caller[c] EXCEPT !.pc = "resume", !.persisted = store["inbox_id"]])
  /\ UNCHANGED <<store, inboxId, pending, promises, probes, serverInbox>>

\* Steps 2 to 4, the caller resumed with the value read: a persisted value
\* answers; else the caller attaches to the pending discovery; else it sets
\* the marker and issues the sentinel creation.
InboxResume(c) ==
  /\ caller[c].pc = "resume"
  /\ LET v == caller[c].persisted IN
       IF PersistedHit(v)
       THEN /\ inboxId' = v
            /\ SetCaller(c, Resolved(c, v))
            /\ UNCHANGED <<pending, promises, probes>>
       ELSE IF pending # 0
       THEN /\ SetCaller(c, [caller[c] EXCEPT !.pc = "wait", !.attached = pending])
            /\ UNCHANGED <<inboxId, pending, promises, probes>>
       ELSE /\ promises' = Append(promises, NoOutcome)
            /\ pending' = Len(promises) + 1
            /\ probes' = [probes EXCEPT !.create = @ + 1]
            /\ SetCaller(c, [caller[c] EXCEPT !.pc = "create", !.attached = Len(promises) + 1,
                                              !.io.requests = @ + 1])
            /\ UNCHANGED inboxId
  /\ UNCHANGED <<store, serverInbox>>

CreateOutcomes == {"failed", "no_project_id", "created"}

\* The sentinel creation has answered.
InboxCreated(c) ==
  /\ caller[c].pc = "create"
  /\ \E o \in CreateOutcomes :
       IF o = "created"
       THEN /\ SetCaller(c, [caller[c] EXCEPT !.pc = "complete", !.found = serverInbox,
                                              !.io.requests = @ + 1])
            /\ probes' = [probes EXCEPT !.complete = @ + 1]
            /\ UNCHANGED <<pending, promises>>
       ELSE /\ SetCaller(c, [caller[c] EXCEPT !.pc = "done", !.result = DiscoveryFailed])
            /\ promises' = [promises EXCEPT ![caller[c].attached] = DiscoveryFailed]
            /\ pending' = MarkerAfterFailure(pending)
            /\ UNCHANGED probes
  /\ UNCHANGED <<store, inboxId, serverInbox>>

\* Mutant: a failed sentinel completion fails the call.
AfterCompletionPropagates(s, ok) ==
  IF ok THEN [s EXCEPT !.pc = "persist", !.io.writes = @ + 1]
  ELSE [s EXCEPT !.pc = "done", !.result = DiscoveryFailed, !.cleanupFailed = TRUE]

\* The caller after the completion answered: on to the persist, whatever
\* the answer.
AfterCompletion(s, ok) ==
  [s EXCEPT !.pc = "persist", !.io.writes = @ + 1, !.cleanupFailed = ~ok]

\* Mutant: a failed SecretStore write fails the call.
AfterPersistPropagates(s, ok) ==
  IF ok THEN [s EXCEPT !.pc = "done", !.result = Ok(s.found)]
  ELSE [s EXCEPT !.pc = "done", !.result = DiscoveryFailed, !.persistFailed = TRUE]

\* The caller after the SecretStore write answered: it returns the
\* identifier found, whatever the answer.
AfterPersist(s, ok) ==
  [s EXCEPT !.pc = "done", !.result = Ok(s.found), !.persistFailed = ~ok]

\* The sentinel completion has answered; its failure is ignored.
InboxCompleted(c) ==
  /\ caller[c].pc = "complete"
  /\ \E ok \in BOOLEAN :
       /\ SetCaller(c, AfterCompletion(caller[c], ok))
       /\ probes' = [probes EXCEPT !.persist = @ + 1,
                                   !.cleanupFailed = IF ok THEN @ ELSE @ + 1]
  /\ UNCHANGED <<store, inboxId, pending, promises, serverInbox>>

\* The SecretStore write has answered (its failure is ignored): the memory
\* cell is filled, the marker released and the deferred result resolved.
InboxPersisted(c) ==
  /\ caller[c].pc = "persist"
  /\ \E ok \in BOOLEAN :
       /\ store' = IF ok THEN [store EXCEPT !["inbox_id"] = caller[c].found] ELSE store
       /\ probes' = [probes EXCEPT !.persistFailed = IF ok THEN @ ELSE @ + 1]
       /\ SetCaller(c, AfterPersist(caller[c], ok))
  /\ inboxId' = caller[c].found
  /\ pending' = 0
  /\ promises' = [promises EXCEPT ![caller[c].attached] = Ok(caller[c].found)]
  /\ UNCHANGED serverInbox

\* A waiter sees the deferred result it attached to.
InboxSettled(c) ==
  /\ caller[c].pc = "wait"
  /\ promises[caller[c].attached] # NoOutcome
  /\ SetCaller(c, [caller[c] EXCEPT !.pc = "done", !.result = promises[caller[c].attached]])
  /\ UNCHANGED <<store, inboxId, pending, promises, probes, serverInbox>>

\* No keychain command and no authorization flow under way.
CliIdle ==
  /\ kc = [pc |-> "idle"]
  /\ cli = [pc |-> "idle"]

\* The tool layer at rest.
ToolsIdle ==
  /\ tool = [pc |-> "idle"]
  /\ cache = [pc |-> "idle"]
  /\ filt = [pc |-> "idle"]
  /\ CliIdle

InitInbox ==
  /\ store \in {[a \in Accounts |-> IF a = "inbox_id" THEN v ELSE NULL] :
                  v \in {NULL} \cup InboxIds}
  /\ now = 0
  /\ st = [p \in Procs |-> Idle]
  /\ InboxIdle
  /\ ToolsIdle

NextInbox ==
  \E c \in Callers :
    \/ GetInboxProjectId(c)
    \/ InboxRead(c)
    \/ InboxResume(c)
    \/ InboxCreated(c)
    \/ InboxCompleted(c)
    \/ InboxPersisted(c)
    \/ InboxSettled(c)

SpecInbox == InitInbox /\ [][NextInbox]_vars

\* =========================================================== TokenManager
Set(p, s) ==
  st' = [st EXCEPT ![p] = s] /\ UNCHANGED inboxVars /\ UNCHANGED toolVars
  /\ UNCHANGED cliVars

Throw(s, e) == [s EXCEPT !.pc = "done", !.outcome = e]

\* The token operation a call is in: forceRefresh on the retry, else
\* getValidAccessToken.
TokenOp(s) ==
  IF s.op = "forceRefresh" \/ s.isRetry THEN "forceRefresh" ELSE "getValidAccessToken"

\* The token operation returns `token`; request goes on to issue its fetch.
ReturnToken(s, token) ==
  LET s1 == [s EXCEPT !.events = Append(@, TokenOp(s) \o ":returned")] IN
  IF s.op = "request"
  THEN [s1 EXCEPT !.pc = "fetch", !.token = token, !.nFetch = @ + 1,
                  !.events = Append(@, "fetch")]
  ELSE [s1 EXCEPT !.pc = "done", !.outcome = Ok(token)]

\* Mutant: the margin is forgotten (now < Number(expiresAt)).
TokenStillValidNoMargin(t, expiresAt) == NumLt(Num(t), Number(expiresAt))

\* Mutant: the margin is exclusive (now <= Number(expiresAt) - margin).
TokenStillValidInclusive(t, expiresAt) ==
  LET e == NumMinus(Number(expiresAt), REFRESH_MARGIN_SECS) IN
  NumLt(Num(t), e) \/ (~e.nan /\ t = e.n)

\* now < Number(expiresAt) - REFRESH_MARGIN_SECS
TokenStillValid(t, expiresAt) ==
  NumLt(Num(t), NumMinus(Number(expiresAt), REFRESH_MARGIN_SECS))

\* refreshAccessToken() runs up to its first keychain.get.
EnterRefresh(s) == [s EXCEPT !.pc = "get_refresh_token", !.nRefresh = @ + 1]

\* Mutant: forceRefresh looks at the stored token first.
EnterForceRefreshIfStale(s) ==
  [s EXCEPT !.pc = "get_access_token", !.nForce = @ + 1,
            !.events = Append(@, "forceRefresh:called")]

\* forceRefresh(): refreshAccessToken(), unconditionally.
EnterForceRefresh(s) ==
  EnterRefresh([s EXCEPT !.nForce = @ + 1, !.events = Append(@, "forceRefresh:called")])

EnterGetValidAccessToken(s) ==
  [s EXCEPT !.pc = "get_access_token", !.nGvat = @ + 1,
            !.events = Append(@, "getValidAccessToken:called")]

\* Mutant: the retry asks getValidAccessToken again instead of forcing a
\* refresh.
EnterRequestNoForce(s) == EnterGetValidAccessToken(s)

\* request(method, path, body, isRetry) up to the token await.
EnterRequest(s) ==
  IF s.isRetry THEN EnterForceRefresh(s) ELSE EnterGetValidAccessToken(s)

\* A logical call starts: a client request, or a TokenManager operation
\* called directly.
Call(p, o) ==
  /\ st[p].pc = "idle"
  /\ LET s0 == [Idle EXCEPT !.op = o, !.before = store] IN
       Set(p, CASE o = "request" -> EnterRequest(s0)
                [] o = "getValidAccessToken" -> EnterGetValidAccessToken(s0)
                [] o = "forceRefresh" -> EnterForceRefresh(s0))
  /\ UNCHANGED <<store, now>>

GetAccessToken(p) ==
  /\ st[p].pc = "get_access_token"
  /\ Set(p, [st[p] EXCEPT !.accessToken = store["access_token"], !.pc = "get_expires_at"])
  /\ UNCHANGED <<store, now>>

\* Mutant: only the access token is looked at.
NotAuthenticatedTokenOnly(accessToken, expiresAt) == ~Truthy(accessToken)

\* !accessToken || !expiresAt
NotAuthenticated(accessToken, expiresAt) == ~Truthy(accessToken) \/ ~Truthy(expiresAt)

\* keychain.get('expires_at') resolves; the validity decision follows.
GetExpiresAt(p) ==
  /\ st[p].pc = "get_expires_at"
  /\ LET s1 == [st[p] EXCEPT !.expiresAt = store["expires_at"], !.nowGvat = now] IN
       Set(p, IF NotAuthenticated(s1.accessToken, s1.expiresAt)
              THEN Throw(s1, AuthError(<<"Not authenticated. ",
                                         "Run ticktick-mcp-auth to set up.">>))
              ELSE IF TokenStillValid(s1.nowGvat, s1.expiresAt)
              THEN ReturnToken(s1, s1.accessToken)
              ELSE EnterRefresh(s1))
  /\ UNCHANGED <<store, now>>

GetRefreshToken(p) ==
  /\ st[p].pc = "get_refresh_token"
  /\ Set(p, [st[p] EXCEPT !.refreshToken = store["refresh_token"], !.pc = "get_client_secret"])
  /\ UNCHANGED <<store, now>>

\* Mutant: only the refresh token is looked at.
CannotRefreshTokenOnly(refreshToken, clientSecret) == ~Truthy(refreshToken)

\* !refreshToken || !clientSecret
CannotRefresh(refreshToken, clientSecret) == ~Truthy(refreshToken) \/ ~Truthy(clientSecret)

\* keychain.get('client_secret') resolves; the token fetch is issued when
\* both secrets are there.
GetClientSecret(p) ==
  /\ st[p].pc = "get_client_secret"
  /\ LET s1 == [st[p] EXCEPT !.clientSecret = store["client_secret"]] IN
       Set(p, IF CannotRefresh(s1.refreshToken, s1.clientSecret)
              THEN Throw(s1, AuthError(<<"Token expired and cannot refresh. ", ReauthGuidance>>))
              ELSE [s1 EXCEPT !.pc = "token_fetch", !.nTokenFetch = @ + 1])
  /\ UNCHANGED <<store, now>>

\* Mutant: the body is accepted as soon as it carries a string access_token.
RefreshResponseNoExpiryCheck(s0, r, t) ==
  LET s == [s0 EXCEPT !.tokenResponse = r] IN
  IF ~r.ok
  THEN Throw(s, AuthError(<<"Token refresh failed. ", ReauthGuidance>>))
  ELSE IF ~r.parses
  THEN Throw(s, AuthError(<<"Token refresh returned malformed response. ", ReauthGuidance>>))
  ELSE IF r.body.access_token.type # "string"
  THEN Throw(s, AuthError(<<"Token refresh returned invalid data. ", ReauthGuidance>>))
  ELSE [s EXCEPT !.data = r.body, !.nowRefresh = t, !.pc = "set_access_token"]

\* The token endpoint's answer is classified.
RefreshResponse(s0, r, t) ==
  LET s == [s0 EXCEPT !.tokenResponse = r] IN
  IF ~r.ok
  THEN Throw(s, AuthError(<<"Token refresh failed. ", ReauthGuidance>>))
  ELSE IF ~r.parses
  THEN Throw(s, AuthError(<<"Token refresh returned malformed response. ", ReauthGuidance>>))
  ELSE IF ~TokenRefreshResponse(r.body)
  THEN Throw(s, AuthError(<<"Token refresh returned invalid data. ", ReauthGuidance>>))
  ELSE [s EXCEPT !.data = r.body, !.nowRefresh = t, !.pc = "set_access_token"]

\* The token fetch carries no abort signal: it resolves, or rejects with a
\* network failure.
TokenFetchFrom(p, responses) ==
  /\ st[p].pc = "token_fetch"
  /\ \/ \E r \in responses : Set(p, RefreshResponse(st[p], r, now))
     \/ Set(p, Throw(st[p], TransportError("TypeError")))
  /\ UNCHANGED <<store, now>>

TokenFetch(p) == TokenFetchFrom(p, TokenResponses)

\* One keychain.set(account, value) of the refresh; `next` is the call's
\* state when the write succeeds.
KeychainSet(p, account, value, next) ==
  \E o \in SetOutcomes :
    /\ store' = CASE o = "ok" -> [store EXCEPT ![account] = value]
                  [] o = "failed_kept" -> store
                  [] o = "failed_deleted" -> [store EXCEPT ![account] = NULL]
    /\ Set(p, IF o = "ok" THEN [next EXCEPT !.nSet = @ + 1]
              ELSE Throw([st[p] EXCEPT !.nSet = @ + 1], KeychainError))

\* Mutant: the refresh token of the response is never stored.
AfterAccessTokenSkipRefreshToken(s) == [s EXCEPT !.pc = "set_expires_at"]

\* if (data.refresh_token) after the access_token write.
AfterAccessToken(s) ==
  [s EXCEPT !.pc = IF s.data.refresh_token.type = "string" /\ Truthy(s.data.refresh_token.s)
                   THEN "set_refresh_token" ELSE "set_expires_at"]

AfterRefreshToken(s) == [s EXCEPT !.pc = "set_expires_at"]

AfterExpiresAt(s) == ReturnToken(s, s.data.access_token.s)

SetAccessToken(p) ==
  /\ st[p].pc = "set_access_token"
  /\ KeychainSet(p, "access_token", st[p].data.access_token.s, AfterAccessToken(st[p]))
  /\ UNCHANGED now

SetRefreshToken(p) ==
  /\ st[p].pc = "set_refresh_token"
  /\ KeychainSet(p, "refresh_token", st[p].data.refresh_token.s, AfterRefreshToken(st[p]))
  /\ UNCHANGED now

SetExpiresAt(p) ==
  /\ st[p].pc = "set_expires_at"
  /\ KeychainSet(p, "expires_at", String(st[p].nowRefresh + st[p].data.expires_in.n),
                 AfterExpiresAt(st[p]))
  /\ UNCHANGED now

\* ========================================================= TickTickClient
\* Mutant: the body is quoted whole, whatever its length.
SnippetWhole(text) == text

\* text.length > 200 ? text.slice(0, 200) + '...' : text
Snippet(text) ==
  IF Len(text) > SNIPPET_MAX THEN SubSeq(text, 1, SNIPPET_MAX) \o <<"...">> ELSE text

JsonParse(text) == <<"parsed:">> \o text

DEFAULT_RETRY_AFTER == <<"6", "0">>

\* Number(response.headers.get('Retry-After') ?? '60')
RetryAfter(header) == Number(IF header = NULL THEN DEFAULT_RETRY_AFTER ELSE header)

ResponseOk(status) == status \in 200..299

\* Mutant: every 401 is retried.
ShouldRetryAlways(status, isRetry) == status = 401

\* Mutant: every failed first attempt is retried.
ShouldRetryAnyFailure(status, isRetry) == ~isRetry

\* response.status === 401 && !isRetry
ShouldRetry(status, isRetry) == status = 401 /\ ~isRetry

\* Mutant: the second 401 falls through to the generic error.
GenericUnauthorized == TickTickApiError(401, <<"Unauthorized">>)

\* The error of a 401 on the retried attempt.
AuthenticationFailedAfterRefresh ==
  TickTickApiError(401, <<"Authentication failed after token refresh. ", ReauthGuidance>>)

\* The code after the fetch has resolved.
Classify(s, r) ==
  LET s1 == [s EXCEPT !.responses = Append(@, r),
                      !.events = Append(@, "classified")] IN
  IF ResponseOk(r.status)
  THEN IF r.text = <<>> THEN [s1 EXCEPT !.pc = "done", !.outcome = Ok(NULL)]
       ELSE IF JsonParses(r.text)
       THEN [s1 EXCEPT !.pc = "done", !.outcome = Ok(JsonParse(r.text))]
       ELSE Throw(s1, TickTickApiError(r.status,
                        <<"Response is not valid JSON: ">> \o Snippet(r.text)))
  ELSE IF ShouldRetry(r.status, s.isRetry)
  THEN EnterRequest([s1 EXCEPT !.isRetry = TRUE])
  ELSE IF r.status = 401 /\ s.isRetry
  THEN Throw(s1, AuthenticationFailedAfterRefresh)
  ELSE IF r.status = 429
  THEN Throw(s1, TickTickRateLimitError(RetryAfter(r.retryAfter)))
  ELSE Throw(s1, TickTickApiError(r.status, r.text))

Fetch(p) ==
  /\ st[p].pc = "fetch"
  /\ \/ \E r \in ApiResponses : Set(p, Classify(st[p], r))
     \/ \E f \in TransportFailures :
          Set(p, Throw([st[p] EXCEPT !.responses = Append(@, NoResponse)], TransportError(f)))
  /\ UNCHANGED <<store, now>>

\* The caller has its outcome; the process is free for the next call.
Return(p) ==
  /\ st[p].pc = "done"
  /\ Set(p, Idle)
  /\ UNCHANGED <<store, now>>

Tick ==
  /\ now < MaxNow
  /\ now' = now + 1
  /\ UNCHANGED <<store, st>>
  /\ UNCHANGED inboxVars
  /\ UNCHANGED toolVars
  /\ UNCHANGED cliVars

Ops == {"request", "getValidAccessToken", "forceRefresh"}

Init ==
  /\ store \in InitialStores
  /\ now \in 0..MaxNow
  /\ st = [p \in Procs |-> Idle]
  /\ InboxIdle
  /\ ToolsIdle

Step(p) ==
  \/ \E o \in Ops : Call(p, o)
  \/ GetAccessToken(p)
  \/ GetExpiresAt(p)
  \/ GetRefreshToken(p)
  \/ GetClientSecret(p)
  \/ TokenFetch(p)
  \/ SetAccessToken(p)
  \/ SetRefreshToken(p)
  \/ SetExpiresAt(p)
  \/ Fetch(p)
  \/ Return(p)

\* One logical call at a time.
Next == Step("p1") \/ Tick

Spec == Init /\ [][Next]_vars

\* ------------------------------------------------------------- deadlines
\* AbortSignal.timeout(TIMEOUT_MS) fires: the exchange of request is
\* cancelled and its fetch rejects with a TimeoutError.
Deadline(p) ==
  /\ st[p].pc = "fetch"
  /\ Set(p, Throw([st[p] EXCEPT !.responses = Append(@, NoResponse)],
                  TransportError("TimeoutError")))
  /\ UNCHANGED <<store, now>>

\* The steps of a call that wait for the keychain only.
KeychainStep(p) ==
  \/ GetAccessToken(p)
  \/ GetExpiresAt(p)
  \/ GetRefreshToken(p)
  \/ GetClientSecret(p)
  \/ SetAccessToken(p)
  \/ SetRefreshToken(p)
  \/ SetExpiresAt(p)

\* A token that is still valid, or one past its margin with the secrets a
\* refresh needs.
InitDeadline ==
  /\ store \in {s \in InitialStores :
                  /\ s["access_token"] = <<"A">>
                  /\ s["expires_at"] \in {String(0), String(REFRESH_MARGIN_SECS + MaxNow + 1)}
                  /\ s["refresh_token"] = <<"R">>
                  /\ s["client_secret"] = <<"S">>}
  /\ now = 0
  /\ st = [p \in Procs |-> Idle]
  /\ InboxIdle
  /\ ToolsIdle

NextDeadline == Step("p1")

\* The server may never answer an exchange.  The keychain answers, and a
\* deadline that an exchange carries fires; the token fetch carries none.
SpecDeadline ==
  InitDeadline /\ [][NextDeadline]_vars /\ WF_vars(KeychainStep("p1")) /\ WF_vars(Deadline("p1"))

\* ------------------------------------------------- overlapping calls
\* The token endpoint answers each refresh with a token response of its own.
RaceTokenBodies ==
  {[access_token |-> JStr(<<"B">>), refresh_token |-> JStr(<<"Q">>), expires_in |-> JNum(30)],
   [access_token |-> JStr(<<"C">>), refresh_token |-> Undefined, expires_in |-> JNum(3600)]}

RaceTokenResponses ==
  {[ok |-> TRUE, parses |-> TRUE, body |-> b] : b \in RaceTokenBodies}

\* One call of a process, from its start to its outcome.
StepOnce(p) ==
  \/ \E o \in Ops : Call(p, o)
  \/ GetAccessToken(p)
  \/ GetExpiresAt(p)
  \/ GetRefreshToken(p)
  \/ GetClientSecret(p)
  \/ TokenFetchFrom(p, RaceTokenResponses)
  \/ SetAccessToken(p)
  \/ SetRefreshToken(p)
  \/ SetExpiresAt(p)
  \/ Fetch(p)

\* The servers and the keychain behave: the calls are client requests, the
\* API answers 200 or 401, no exchange is cut and no keychain write fails.
RaceEnv ==
  \A p \in Procs :
    /\ st[p].op \in {"none", "request"}
    /\ st[p].outcome.kind \in {"none", "ok", "TickTickApiError"}
    /\ \A k \in 1..Len(st[p].responses) :
         /\ st[p].responses[k].status \in {200, 401}
         /\ st[p].responses[k].text \in {<<"[", "]">>, <<"Unauthorized">>}

\* Two logical calls on one TokenManager, interleaved at their awaits.
NextRace == \E p \in Procs : StepOnce(p) /\ RaceEnv'

SpecRace == InitDeadline /\ [][NextRace]_vars

\* ============================================================= tool layer
\* JSON null, as a client call may return it.
JNull == [type |-> "null"]

\* success(data): not an error; the text is JSON.stringify(data), kept as
\* the value that was stringified.
Success(data) == [isError |-> FALSE, text |-> <<"json">>, data |-> data]

\* error(msg)
ToolError(msg) == [isError |-> TRUE, text |-> msg, data |-> JNull]

NoResult == [isError |-> FALSE, text |-> <<>>, data |-> JNull]

\* What a client call may throw at a handler.
ZodError(issues) == [kind |-> "ZodError", issues |-> issues, message |-> <<"zod">>]

DOMException(name) ==
  [kind |-> "DOMException", name |-> name, message |-> <<"The operation was aborted">>]

PlainError(name, message) == [kind |-> "Error", name |-> name, message |-> message]

\* A thrown value that is no Error: a string, or null.
ThrownString(s) == [kind |-> "string", value |-> s]

ThrownNull == [kind |-> "null"]

NotCaught == [kind |-> "none"]

ToolThrown ==
  {TickTickRateLimitError(Num(30)),
   AuthError(<<"Token expired and cannot refresh. ", ReauthGuidance>>),
   TickTickApiError(500, <<"Internal Server Error">>),
   TickTickApiError(429, <<"Too Many Requests">>),
   AuthenticationFailedAfterRefresh,
   ZodError(<<[message |-> <<"Required">>]>>),
   ZodError(<<>>),
   DOMException("AbortError"),
   DOMException("TimeoutError"),
   PlainError("AbortError", <<"aborted">>),
   PlainError("TypeError", <<"fetch failed">>),
   PlainError("Error", <<"Rate limited">>),
   ThrownString(<<"o", "o", "p", "s">>),
   ThrownNull}

\* e.name: the program's classes set it to the class name.
ErrorName(e) == IF "name" \in DOMAIN e THEN e.name ELSE e.kind

\* String(e) of a thrown value that is no Error.
StringOf(e) == IF e.kind = "null" THEN <<"n", "u", "l", "l">> ELSE e.value

\* Mutant: the TickTickApiError test comes first.
formatToolErrorApiFirst(e) ==
  IF InstanceOf(e, "TickTickApiError") THEN e.message
  ELSE IF InstanceOf(e, "TickTickRateLimitError")
  THEN <<"Rate limited. Try again in ">> \o NumToString(e.retryAfter) \o <<" seconds.">>
  ELSE IF InstanceOf(e, "AuthError") THEN <<"Authentication failed. ", ReauthGuidance>>
  ELSE IF InstanceOf(e, "ZodError")
  THEN <<"Invalid input: ">>
       \o (IF e.issues = <<>> THEN <<"validation failed">> ELSE e.issues[1].message)
  ELSE IF InstanceOf(e, "DOMException") /\ ErrorName(e) = "AbortError"
  THEN <<"Request timed out. Try again.">>
  ELSE IF InstanceOf(e, "Error") /\ ErrorName(e) = "TimeoutError"
  THEN <<"Request timed out. Try again.">>
  ELSE IF InstanceOf(e, "Error") THEN <<"Unexpected error: ">> \o e.message
  ELSE <<"Unexpected error: ">> \o StringOf(e)

formatToolError(e) ==
  IF InstanceOf(e, "TickTickRateLimitError")
  THEN <<"Rate limited. Try again in ">> \o NumToString(e.retryAfter) \o <<" seconds.">>
  ELSE IF InstanceOf(e, "AuthError") THEN <<"Authentication failed. ", ReauthGuidance>>
  ELSE IF InstanceOf(e, "TickTickApiError") THEN e.message
  ELSE IF InstanceOf(e, "ZodError")
  THEN <<"Invalid input: ">>
       \o (IF e.issues = <<>> THEN <<"validation failed">> ELSE e.issues[1].message)
  ELSE IF InstanceOf(e, "DOMException") /\ ErrorName(e) = "AbortError"
  THEN <<"Request timed out. Try again.">>
  ELSE IF InstanceOf(e, "Error") /\ ErrorName(e) = "TimeoutError"
  THEN <<"Request timed out. Try again.">>
  ELSE IF InstanceOf(e, "Error") THEN <<"Unexpected error: ">> \o e.message
  ELSE <<"Unexpected error: ">> \o StringOf(e)

\* The tools whose handler makes one client call, and the call each makes.
SimpleTools ==
  {"ticktick_create_task", "ticktick_get_task", "ticktick_update_task",
   "ticktick_complete_task", "ticktick_create_project"}

ToolNames == SimpleTools \cup {"ticktick_move_task", "ticktick_get_projects", "ticktick_get_tasks"}

Method(name) ==
  CASE name = "ticktick_create_task" -> "createTask"
    [] name = "ticktick_get_task" -> "getTask"
    [] name = "ticktick_update_task" -> "updateTask"
    [] name = "ticktick_complete_task" -> "completeTask"
    [] name = "ticktick_create_project" -> "createProject"

\* The opening of each handler's error text.
FailedTo(name) ==
  CASE name = "ticktick_create_task" -> "Failed to create task: "
    [] name = "ticktick_get_task" -> "Failed to get task: "
    [] name = "ticktick_get_tasks" -> "Failed to get tasks: "
    [] name = "ticktick_update_task" -> "Failed to update task: "
    [] name = "ticktick_complete_task" -> "Failed to complete task: "
    [] name = "ticktick_move_task" -> "Failed to move task: "
    [] name = "ticktick_get_projects" -> "Failed to get projects: "
    [] name = "ticktick_create_project" -> "Failed to create project: "

ToolChange(t) ==
  /\ tool' = t
  /\ UNCHANGED <<store, now, st, cache, filt>>
  /\ UNCHANGED inboxVars
  /\ UNCHANGED cliVars

\* A client call is issued and awaited.
Await(t, stage, method) ==
  [t EXCEPT !.pc = stage, !.calls = Append(@, [method |-> method, threw |-> FALSE])]

\* The awaited client call has thrown.
Threw(t) == [t EXCEPT !.calls[Len(t.calls)].threw = TRUE]

\* return success(data) / return error(msg)
Finish(t, result) == [t EXCEPT !.pc = "done", !.result = result]

\* Mutant: the outer catch answers as if the call had succeeded.
CatchAsSuccess(t, e) == [Finish(t, Success(JNull)) EXCEPT !.caught = e]

\* The handler's outer catch.
Catch(t, e) ==
  [Finish(t, ToolError(<<FailedTo(t.name)>> \o formatToolError(e))) EXCEPT !.caught = e]

\* Tasks as the API sends them: two that validate (one of them completed),
\* one without its id and one without its status.
RawTasks ==
  {[type |-> "object", id |-> JStr(<<"t", "1">>), status |-> JNum(0)],
   [type |-> "object", id |-> JStr(<<"t", "2">>), status |-> JNum(2)],
   [type |-> "object", id |-> Undefined, status |-> JNum(0)],
   [type |-> "object", id |-> JStr(<<"t", "3">>), status |-> Undefined]}

\* Mutant: a null result passes the validation.
TickTickTaskParsesNull(raw) ==
  \/ raw.type = "null"
  \/ raw.type = "object" /\ raw.id.type = "string" /\ raw.status.type = "number"

\* TickTickTask.safeParse(raw).success, on the fields the model carries:
\* id: z.string(), status: z.number().
TickTickTaskParses(raw) ==
  /\ raw.type = "object"
  /\ raw.id.type = "string"
  /\ raw.status.type = "number"

\* parsed.data of a task that parses.
\* tags defaults to [], an absent dueDate stays absent.
TickTickTaskData(raw) ==
  [id |-> raw.id.s, status |-> raw.status.n, hasTags |-> TRUE, tags |-> <<>>,
   dueDate |-> NULL]

CreatedTask == [type |-> "object", id |-> JStr(<<"n", "e", "w">>), status |-> JNum(0)]

\* The arguments a tool is called with, on the fields its handler reads.
NoArgs == [projectId |-> NULL, includeCompleted |-> FALSE]

ToolArgs(name) ==
  CASE name = "ticktick_get_tasks" ->
         {[NoArgs EXCEPT !.projectId = x, !.includeCompleted = y] :
            x \in {NULL, <<"p", "1">>}, y \in BOOLEAN}
    [] OTHER -> {NoArgs}

\* The handler starts and runs up to its first await; its arguments have
\* passed the tool's input schema, so the handler's own parse of them
\* succeeds.
Invoke(name, args) ==
  /\ tool.pc = "idle"
  /\ LET t0 == [pc |-> "start", name |-> name, args |-> args, calls |-> <<>>,
                caught |-> NotCaught, result |-> NoResult, raw |-> JNull,
                projects |-> <<>>, i |-> 0, allTasks |-> <<>>, warnings |-> <<>>,
                failedProjectCount |-> 0, inbox |-> NULL, served |-> <<>>] IN
       ToolChange(
         CASE name \in SimpleTools -> Await(t0, "call", Method(name))
           [] name = "ticktick_move_task" -> Await(t0, "move:getTask", "getTask")
           [] name = "ticktick_get_projects" -> Await(t0, "projects:getProjects", "getProjects")
           [] name = "ticktick_get_tasks" ->
                IF Truthy(args.projectId)
                THEN Await(t0, "tasks:getProjectData", "getProjectData")
                ELSE Await(t0, "tasks:getProjects", "getProjects"))

\* The one client call of a simple handler has answered.
SimpleAnswered ==
  /\ tool.pc = "call"
  /\ \/ \E e \in ToolThrown : ToolChange(Catch(Threw(tool), e))
     \/ \E v \in {JNull, CreatedTask} :
          ToolChange(Finish(tool,
            IF tool.name = "ticktick_complete_task"
            THEN Success([completed |-> TRUE, taskId |-> <<"t", "1">>])
            ELSE Success(v)))

\* ticktick_move_task: getTask has answered; the task is validated and the
\* copy is created.
MoveGetTaskAnswered ==
  /\ tool.pc = "move:getTask"
  /\ \/ \E e \in ToolThrown : ToolChange(Catch(Threw(tool), e))
     \/ \E raw \in RawTasks \cup {JNull} :
          ToolChange(
            LET t1 == [tool EXCEPT !.raw = raw] IN
            IF ~TickTickTaskParses(raw)
            THEN Finish(t1, ToolError(<<"Failed to move task: failed to validate the source task. It may not exist or the response was invalid.">>))
            ELSE Await(t1, "move:createTask", "createTask"))

\* ticktick_move_task: createTask has answered; the source is completed.
MoveCreateTaskAnswered ==
  /\ tool.pc = "move:createTask"
  /\ \/ \E e \in ToolThrown : ToolChange(Catch(Threw(tool), e))
     \/ ToolChange(Await(tool, "move:completeTask", "completeTask"))

\* ticktick_move_task: completeTask has answered.
MoveCompleteTaskAnswered ==
  /\ tool.pc = "move:completeTask"
  /\ \/ \E e \in ToolThrown : ToolChange(Catch(Threw(tool), e))
     \/ ToolChange(Finish(tool, Success([moved |-> TRUE, originalTaskId |-> <<"t", "1">>,
                                         newTask |-> CreatedTask])))


\* ------------------------------------------------- ticktick_get_projects
JArray(items) == [type |-> "array", v |-> items]

Project(id, name) == [type |-> "object", id |-> id, name |-> name]

Work == Project(<<"p", "1">>, <<"Work">>)

Home == Project(<<"p", "2">>, <<"Home">>)

\* What getProjects may list: nothing, regular projects, or the inbox too.
ListedProjects == {<<>>, <<Work>>, <<Work, Home>>, <<Work, Project(<<"i", "1">>, <<"Inbox">>)>>}

\* What getProjectData may return: null, an object with neither project nor
\* tasks, or an object with tasks under one of the project wrappers given
\* (Undefined: no wrapper, as the API answers for the inbox).
TaskLists(n) == UNION {[1..k -> RawTasks] : k \in 0..n}

ProjectDataOf(wrappers, tasks) ==
  {JNull, [type |-> "object", project |-> Undefined, tasks |-> Undefined]}
  \cup [type : {"object"}, project : wrappers, tasks : {JArray(x) : x \in tasks}]

\* inboxData && typeof inboxData === 'object' && 'project' in inboxData
\*   ? inboxData.project : null, taken as a condition.
HasProject(data) == data.type = "object" /\ data.project.type # "undefined"

\* projects.some((p) => p.id === inboxId)
AlreadyIncluded(projects, id) == \E k \in 1..Len(projects) : projects[k].id = id

\* Mutant: a failed inbox lookup reaches the outer catch.
ProjectsInboxFailedPropagates(t) == Catch(t, ThrownNull)

\* The inner catch of ticktick_get_projects: the regular projects only.
ProjectsInboxFailed(t) == Finish(t, Success(JArray(t.projects)))

\* getProjects has answered.
ProjectsListed ==
  /\ tool.pc = "projects:getProjects"
  /\ \/ \E e \in ToolThrown : ToolChange(Catch(Threw(tool), e))
     \/ \E ps \in ListedProjects :
          ToolChange(Await([tool EXCEPT !.projects = ps],
                           "projects:getInboxProjectId", "getInboxProjectId"))

\* getInboxProjectId has answered; its failure is swallowed.
ProjectsInboxAnswered ==
  /\ tool.pc = "projects:getInboxProjectId"
  /\ \/ \E e \in ToolThrown :
          ToolChange(ProjectsInboxFailed(Threw(tool)))
     \/ \E id \in InboxIds :
          ToolChange(
            LET t1 == [tool EXCEPT !.inbox = id] IN
            IF AlreadyIncluded(t1.projects, id)
            THEN Finish(t1, Success(JArray(t1.projects)))
            ELSE Await(t1, "projects:getProjectData", "getProjectData"))

\* getProjectData(inboxId) has answered; its failure is swallowed.
ProjectsInboxDataAnswered ==
  /\ tool.pc = "projects:getProjectData"
  /\ \/ \E e \in ToolThrown :
          ToolChange(ProjectsInboxFailed(Threw(tool)))
     \/ \E data \in ProjectDataOf({Undefined, Project(tool.inbox, <<"Inbox">>)}, TaskLists(0)) :
          ToolChange(
            LET t1 == [tool EXCEPT !.raw = data] IN
            IF HasProject(data)
            THEN Finish(t1, Success(JArray(<<data.project>> \o t1.projects)))
            ELSE Finish(t1, Success(JArray(t1.projects))))

\* ------------------------------------------------------------ filterTasks
\* new Date(text).getTime() for the texts YYYY-MM-DDTHH:MM:SS followed by Z or
\* by a +HHMM / -HHMM offset, NaN for every other text the model sends.  The
\* time is kept in seconds: the texts carry no fraction of a second.
IsLeap(y) == (y % 4 = 0 /\ y % 100 # 0) \/ y % 400 = 0

DaysInMonth(y, m) ==
  IF m = 2 THEN (IF IsLeap(y) THEN 29 ELSE 28)
  ELSE IF m \in {4, 6, 9, 11} THEN 30 ELSE 31

\* Days from 1970-01-01 to y-m-d.
DaysFromCivil(y, m, d) ==
  LET yy == IF m <= 2 THEN y - 1 ELSE y
      era == yy \div 400
      yoe == yy - era * 400
      mp == IF m > 2 THEN m - 3 ELSE m + 9
      doy == (153 * mp + 2) \div 5 + d - 1
      doe == yoe * 365 + yoe \div 4 - yoe \div 100 + doy
  IN era * 146097 + doe - 719468

DateGetTime(text) ==
  IF Len(text) \notin {20, 24} THEN NaN
  ELSE IF ~(/\ AllDigits(SubSeq(text, 1, 4)) /\ text[5] = "-"
            /\ AllDigits(SubSeq(text, 6, 7)) /\ text[8] = "-"
            /\ AllDigits(SubSeq(text, 9, 10)) /\ text[11] = "T"
            /\ AllDigits(SubSeq(text, 12, 13)) /\ text[14] = ":"
            /\ AllDigits(SubSeq(text, 15, 16)) /\ text[17] = ":"
            /\ AllDigits(SubSeq(text, 18, 19))
            /\ IF Len(text) = 20 THEN text[20] = "Z"
               ELSE text[20] \in {"+", "-"} /\ AllDigits(SubSeq(text, 21, 24)))
  THEN NaN
  ELSE LET y == DecimalValue(SubSeq(text, 1, 4))
           m == DecimalValue(SubSeq(text, 6, 7))
           d == DecimalValue(SubSeq(text, 9, 10))
           h == DecimalValue(SubSeq(text, 12, 13))
           mi == DecimalValue(SubSeq(text, 15, 16))
           s == DecimalValue(SubSeq(text, 18, 19))
           off == IF Len(text) = 20 THEN 0
                  ELSE (IF text[20] = "-" THEN -1 ELSE 1)
                       * (DecimalValue(SubSeq(text, 21, 22)) * 3600
                          + DecimalValue(SubSeq(text, 23, 24)) * 60)
       IN IF m \notin 1..12 \/ d \notin 1..DaysInMonth(y, m) \/ h > 23 \/ mi > 59 \/ s > 59
          THEN NaN
          ELSE Num(DaysFromCivil(y, m, d) * 86400 + h * 3600 + mi * 60 + s - off)

\* task.tags ?? []
TagsOrEmpty(task) == IF task.hasTags THEN task.tags ELSE <<>>

\* tags.includes(tag)
Includes(tags, tag) == \E k \in 1..Len(tags) : tags[k] = tag

\* Mutant: dueBefore compares with the start of the day.
KeepsBeforeStartOfDay(task, options) ==
  /\ ~(~options.includeCompleted /\ task.status = 2)
  /\ ~(Truthy(options.tag) /\ ~Includes(TagsOrEmpty(task), options.tag))
  /\ Truthy(options.dueBefore)
       => /\ Truthy(task.dueDate)
          /\ ~NumLt(DateGetTime(options.dueBefore \o <<"T", "0", "0", ":", "0", "0", ":", "0", "0", "Z">>),
                    DateGetTime(task.dueDate))
  /\ Truthy(options.dueAfter)
       => /\ Truthy(task.dueDate)
          /\ ~NumLt(DateGetTime(task.dueDate),
                    DateGetTime(options.dueAfter \o <<"T", "0", "0", ":", "0", "0", ":", "0", "0", "Z">>))

\* The callback of tasks.filter: true when the task is kept.
Keeps(task, options) ==
  /\ ~(~options.includeCompleted /\ task.status = 2)
  /\ ~(Truthy(options.tag) /\ ~Includes(TagsOrEmpty(task), options.tag))
  /\ Truthy(options.dueBefore)
       => /\ Truthy(task.dueDate)
          /\ ~NumLt(DateGetTime(options.dueBefore \o <<"T", "2", "3", ":", "5", "9", ":", "5", "9", "Z">>),
                    DateGetTime(task.dueDate))
  /\ Truthy(options.dueAfter)
       => /\ Truthy(task.dueDate)
          /\ ~NumLt(DateGetTime(task.dueDate),
                    DateGetTime(options.dueAfter \o <<"T", "0", "0", ":", "0", "0", ":", "0", "0", "Z">>))

filterTasks(tasks, options) == SelectSeq(tasks, LAMBDA task : Keeps(task, options))

\* ---------------------------------------------------- ticktick_get_tasks
\* TickTickProjectDataRaw.safeParse(data).success: an object whose tasks are
\* an array; the project wrapper is not required.
TickTickProjectDataRawParses(data) == data.type = "object" /\ data.tasks.type = "array"

\* Mutant: the first task that fails validation ends the list.
RECURSIVE ValidTasksUntilFailure(_)
ValidTasksUntilFailure(raws) ==
  IF raws = <<>> \/ ~TickTickTaskParses(Head(raws)) THEN <<>>
  ELSE <<TickTickTaskData(Head(raws))>> \o ValidTasksUntilFailure(Tail(raws))

\* allTasks.map(safeParse).filter(success).map(data)
RECURSIVE ValidTasks(_)
ValidTasks(raws) ==
  IF raws = <<>> THEN <<>>
  ELSE (IF TickTickTaskParses(Head(raws)) THEN <<TickTickTaskData(Head(raws))>> ELSE <<>>)
       \o ValidTasks(Tail(raws))

\* failedTaskCount after the filter has run.
RECURSIVE FailedTaskCount(_)
FailedTaskCount(raws) ==
  IF raws = <<>> THEN 0
  ELSE (IF TickTickTaskParses(Head(raws)) THEN 0 ELSE 1) + FailedTaskCount(Tail(raws))

ProjectsSkipped(n) == String(n) \o <<" project(s) could not be parsed and were skipped">>

TasksDropped(n) == String(n) \o <<" task(s) could not be parsed and were dropped">>

InboxTasksSkipped == <<"Inbox tasks could not be parsed and were skipped">>

InboxDiscoveryFailed == <<"Could not fetch inbox tasks - inbox discovery failed">>

Warn(t, w) == [t EXCEPT !.warnings = Append(@, w)]

\* From the validation of the collected tasks to the handler's result.
TasksDone(t) ==
  LET t1 == IF FailedTaskCount(t.allTasks) > 0
            THEN Warn(t, TasksDropped(FailedTaskCount(t.allTasks)))
            ELSE t
  IN Finish(t1, Success([type |-> "tasks",
                         tasks |-> filterTasks(ValidTasks(t1.allTasks),
                                     [tag |-> NULL, dueBefore |-> NULL, dueAfter |-> NULL,
                                      includeCompleted |-> t1.args.includeCompleted]),
                         warnings |-> t1.warnings]))

\* The answer of a getProjectData call is kept for the record.
Served(t, data) == [t EXCEPT !.served = Append(@, data)]

\* With projectId: getProjectData has answered.
TasksProjectDataAnswered ==
  /\ tool.pc = "tasks:getProjectData"
  /\ \/ \E e \in ToolThrown : ToolChange(Catch(Threw(tool), e))
     \/ \E data \in ProjectDataOf({Undefined, Work}, TaskLists(MaxTasks)) :
          ToolChange(
            LET t1 == Served(tool, data) IN
            IF ~TickTickProjectDataRawParses(data)
            THEN Finish(t1, ToolError(<<"Failed to parse project data for project ">>
                                      \o t1.args.projectId))
            ELSE TasksDone([t1 EXCEPT !.allTasks = data.tasks.v]))

\* After the loop over the listed projects: the skipped projects are
\* reported and the inbox is looked up.
AfterProjects(t) ==
  Await(IF t.failedProjectCount > 0 THEN Warn(t, ProjectsSkipped(t.failedProjectCount)) ELSE t,
        "tasks:getInboxProjectId", "getInboxProjectId")

\* Without projectId: getProjects has answered.
TasksListed ==
  /\ tool.pc = "tasks:getProjects"
  /\ \/ \E e \in ToolThrown : ToolChange(Catch(Threw(tool), e))
     \/ \E ps \in ListedProjects :
          ToolChange(
            LET t1 == [tool EXCEPT !.projects = ps] IN
            IF ps = <<>> THEN AfterProjects(t1)
            ELSE Await([t1 EXCEPT !.i = 1], "tasks:loop", "getProjectData"))

\* Without projectId: getProjectData of the i-th listed project has answered.
TasksLoopAnswered ==
  /\ tool.pc = "tasks:loop"
  /\ \/ \E e \in ToolThrown : ToolChange(Catch(Threw(tool), e))
     \/ \E data \in ProjectDataOf({tool.projects[tool.i]}, TaskLists(MaxTasks - Len(tool.allTasks))) :
          ToolChange(
            LET t1 == Served(tool, data)
                t2 == IF TickTickProjectDataRawParses(data)
                      THEN [t1 EXCEPT !.allTasks = @ \o data.tasks.v]
                      ELSE [t1 EXCEPT !.failedProjectCount = @ + 1]
            IN IF t2.i < Len(t2.projects)
               THEN Await([t2 EXCEPT !.i = @ + 1], "tasks:loop", "getProjectData")
               ELSE AfterProjects(t2))

\* The inner catch of ticktick_get_tasks: the failure becomes a warning.
TasksInboxFailed(t) == TasksDone(Warn(t, InboxDiscoveryFailed))

\* Without projectId: getInboxProjectId has answered.
TasksInboxAnswered ==
  /\ tool.pc = "tasks:getInboxProjectId"
  /\ \/ \E e \in ToolThrown : ToolChange(TasksInboxFailed(Threw(tool)))
     \/ \E id \in InboxIds :
          ToolChange(Await([tool EXCEPT !.inbox = id], "tasks:inboxData", "getProjectData"))

\* Without projectId: getProjectData(inboxId) has answered.
TasksInboxDataAnswered ==
  /\ tool.pc = "tasks:inboxData"
  /\ \/ \E e \in ToolThrown : ToolChange(TasksInboxFailed(Threw(tool)))
     \/ \E data \in ProjectDataOf({Undefined}, TaskLists(MaxTasks - Len(tool.allTasks))) :
          ToolChange(
            LET t1 == Served(tool, data) IN
            IF TickTickProjectDataRawParses(data)
            THEN TasksDone([t1 EXCEPT !.allTasks = @ \o data.tasks.v])
            ELSE TasksDone(Warn(t1, InboxTasksSkipped)))

\* The protocol layer has the handler's result.
ToolReturn ==
  /\ tool.pc = "done"
  /\ ToolChange([pc |-> "idle"])


InitTools ==
  /\ store = [a \in Accounts |-> NULL]
  /\ now = 0
  /\ st = [p \in Procs |-> Idle]
  /\ InboxIdle
  /\ ToolsIdle

NextTools ==
  \/ \E name \in ToolNames : \E args \in ToolArgs(name) : Invoke(name, args)
  \/ SimpleAnswered
  \/ MoveGetTaskAnswered
  \/ MoveCreateTaskAnswered
  \/ MoveCompleteTaskAnswered
  \/ ProjectsListed
  \/ ProjectsInboxAnswered
  \/ ProjectsInboxDataAnswered
  \/ TasksProjectDataAnswered
  \/ TasksListed
  \/ TasksLoopAnswered
  \/ TasksInboxAnswered
  \/ TasksInboxDataAnswered
  \/ ToolReturn

SpecTools == InitTools /\ [][NextTools]_vars

\* =============================================================== TtlCache
CacheCallers == {1, 2}

\* The ttlMs a cache is constructed with.
TtlValues == {1, 2}

\* A get that is not running.
NoGet == [pc |-> "idle", force |-> FALSE, calls |-> 0, fetchNo |-> 0, result |-> NoOutcome,
          calledAt |-> 0, lastDoneAtCall |-> -1, lastValueAtCall |-> JNull,
          invalidatedAtCall |-> FALSE, rejectedAtCall |-> FALSE,
          stale |-> FALSE, staleAtCall |-> FALSE,
          stateAtCall |-> <<JNull, 0>>, stateAtEnd |-> <<JNull, 0>>]

\* new TtlCache(ttlMs); the log keeps when the last fetch completed, what it
\* gave, whether invalidate() ran or a fetcher rejected since, and whether
\* the value held comes from a fetch that began before an invalidate().
NewCache(ttlMs) ==
  [pc |-> "live", ttlMs |-> ttlMs, data |-> JNull, fetchedAt |-> 0, fetches |-> 0,
   get |-> [c \in CacheCallers |-> NoGet],
   log |-> [lastDone |-> -1, lastValue |-> JNull, invalidated |-> FALSE,
            rejected |-> FALSE, stale |-> FALSE]]

CacheChange(c) ==
  /\ cache' = c
  /\ UNCHANGED <<store, now, st, tool, filt>>
  /\ UNCHANGED inboxVars
  /\ UNCHANGED cliVars

\* Mutant: the cached value is served up to and including ttlMs.
CacheHitInclusive(data, fetchedAt, ttlMs, forceRefresh, t) ==
  ~forceRefresh /\ data # JNull /\ t - fetchedAt <= ttlMs

\* !forceRefresh && this.data !== null && Date.now() - this.fetchedAt < this.ttlMs
CacheHit(data, fetchedAt, ttlMs, forceRefresh, t) ==
  ~forceRefresh /\ data # JNull /\ t - fetchedAt < ttlMs

\* get(fetcher, forceRefresh) up to its return or to the await of the
\* fetcher.
CacheGet(c, forceRefresh) ==
  /\ cache.pc = "live"
  /\ cache.get[c].pc = "idle"
  /\ LET g == [NoGet EXCEPT !.force = forceRefresh, !.calledAt = now,
                            !.lastDoneAtCall = cache.log.lastDone,
                            !.lastValueAtCall = cache.log.lastValue,
                            !.invalidatedAtCall = cache.log.invalidated,
                            !.rejectedAtCall = cache.log.rejected,
                            !.staleAtCall = cache.log.stale,
                            !.stateAtCall = <<cache.data, cache.fetchedAt>>]
     IN IF CacheHit(cache.data, cache.fetchedAt, cache.ttlMs, forceRefresh, now)
        THEN CacheChange([cache EXCEPT !.get[c] = [g EXCEPT !.pc = "done",
                                                            !.result = Ok(cache.data)]])
        ELSE /\ cache.fetches < MaxFetches
             /\ CacheChange([cache EXCEPT !.fetches = @ + 1,
                                          !.get[c] = [g EXCEPT !.pc = "fetching",
                                                               !.calls = 1,
                                                               !.fetchNo = cache.fetches + 1]])

\* The fetcher resolves with a value of its own: data and fetchedAt are
\* assigned and the value is returned.
CacheFetched(c) ==
  /\ cache.pc = "live"
  /\ cache.get[c].pc = "fetching"
  /\ LET v == JNum(cache.get[c].fetchNo) IN
       CacheChange([cache EXCEPT !.data = v, !.fetchedAt = now,
                                 !.get[c].pc = "done", !.get[c].result = Ok(v),
                                 !.get[c].stateAtEnd = <<v, now>>,
                                 !.log = [lastDone |-> now, lastValue |-> v,
                                          invalidated |-> FALSE, rejected |-> FALSE,
                                          stale |-> cache.get[c].stale]])

\* Mutant: a rejected fetch drops the cached value.
CacheFetchRejectedClears(c) ==
  /\ cache.pc = "live"
  /\ cache.get[c].pc = "fetching"
  /\ CacheChange([cache EXCEPT !.data = JNull, !.fetchedAt = 0,
                               !.get[c].pc = "done",
                               !.get[c].result = TransportError("TypeError"),
                               !.get[c].stateAtEnd = <<JNull, 0>>,
                               !.log.rejected = TRUE])

\* The fetcher rejects: the rejection leaves get before any assignment.
CacheFetchRejected(c) ==
  /\ cache.pc = "live"
  /\ cache.get[c].pc = "fetching"
  /\ CacheChange([cache EXCEPT !.get[c].pc = "done",
                               !.get[c].result = TransportError("TypeError"),
                               !.get[c].stateAtEnd = <<cache.data, cache.fetchedAt>>,
                               !.log.rejected = TRUE])

\* invalidate(); the fetches in flight are marked as begun before it.
CacheInvalidate ==
  /\ cache.pc = "live"
  /\ CacheChange([cache EXCEPT
       !.data = JNull, !.fetchedAt = 0, !.log.invalidated = TRUE, !.log.stale = FALSE,
       !.get = [c \in CacheCallers |->
                  IF cache.get[c].pc = "fetching" THEN [cache.get[c] EXCEPT !.stale = TRUE]
                  ELSE cache.get[c]]])

\* The caller has the result of its get.
CacheReturn(c) ==
  /\ cache.pc = "live"
  /\ cache.get[c].pc = "done"
  /\ CacheChange([cache EXCEPT !.get[c] = NoGet])

\* Date.now() advances.
CacheTick ==
  /\ now < MaxNow
  /\ now' = now + 1
  /\ UNCHANGED <<store, st, tool, cache, filt>>
  /\ UNCHANGED inboxVars
  /\ UNCHANGED cliVars

InitCache ==
  /\ store = [a \in Accounts |-> NULL]
  /\ now = 0
  /\ st = [p \in Procs |-> Idle]
  /\ InboxIdle
  /\ tool = [pc |-> "idle"]
  /\ filt = [pc |-> "idle"]
  /\ CliIdle
  /\ cache \in {NewCache(ttlMs) : ttlMs \in TtlValues}

\* No get of another caller is under way.
CacheQuiet(c) == \A d \in CacheCallers \ {c} : cache.get[d].pc = "idle"

\* The gets of one cache, one at a time.
NextCache ==
  \/ \E c \in CacheCallers :
       /\ CacheQuiet(c)
       /\ \/ \E forceRefresh \in BOOLEAN : CacheGet(c, forceRefresh)
          \/ CacheFetched(c)
          \/ CacheFetchRejected(c)
          \/ CacheReturn(c)
  \/ (\A c \in CacheCallers : cache.get[c].pc # "fetching") /\ CacheInvalidate
  \/ CacheTick

SpecCache == InitCache /\ [][NextCache]_vars

\* The fetcher calls of overlapping gets are bounded.
MaxRaceFetches == 2

CacheRaceBound == cache.fetches <= MaxRaceFetches

\* The gets of one cache overlapping at the await of the fetcher, with
\* invalidate() at any time.
NextCacheRace ==
  \/ \E c \in CacheCallers :
       \/ \E forceRefresh \in BOOLEAN : CacheGet(c, forceRefresh) /\ CacheRaceBound'
       \/ CacheFetched(c)
       \/ CacheFetchRejected(c)
       \/ CacheReturn(c)
  \/ CacheInvalidate
  \/ CacheTick

SpecCacheRace == InitCache /\ [][NextCacheRace]_vars

\* ============================================================ filterTasks
\* The inputs of filterTasks: due dates and filter days of 2026, each with
\* the UTC second of the year it stands for.
Pad2(n) == IF n < 10 THEN <<"0">> \o String(n) ELSE String(n)

DaysBefore2026 == <<0, 31, 59, 90, 120, 151, 181, 212, 243, 273, 304, 334>>

DayStart(m, d) == (DaysBefore2026[m] + d - 1) * 86400

DayText(m, d) == <<"2", "0", "2", "6", "-">> \o Pad2(m) \o <<"-">> \o Pad2(d)

Utc == [text |-> <<"Z">>, ahead |-> 0]

UtcOffset == [text |-> <<"+", "0", "0", "0", "0">>, ahead |-> 0]

OneHourAhead == [text |-> <<"+", "0", "1", "0", "0">>, ahead |-> 3600]

DueAt(m, d, h, mi, s, zone) ==
  [dueDate |-> DayText(m, d) \o <<"T">> \o Pad2(h) \o <<":">> \o Pad2(mi) \o <<":">> \o Pad2(s)
               \o zone.text,
   dueUtc |-> DayStart(m, d) + h * 3600 + mi * 60 + s - zone.ahead]

NoDue == [dueDate |-> NULL, dueUtc |-> -1]

TagA == <<"@", "a">>

TagB == <<"@", "b">>

NoTags == [hasTags |-> FALSE, tags |-> <<>>]

Tags(tags) == [hasTags |-> TRUE, tags |-> tags]

FilterTask(id, status, tags, due) ==
  [id |-> id, status |-> status, hasTags |-> tags.hasTags, tags |-> tags.tags,
   dueDate |-> due.dueDate, dueUtc |-> due.dueUtc]

FilterTasksPool ==
  {FilterTask(<<"t", "1">>, 0, Tags(<<TagA>>), DueAt(2, 25, 23, 59, 59, UtcOffset)),
   FilterTask(<<"t", "2">>, 2, Tags(<<TagB, TagA>>), DueAt(2, 25, 0, 0, 0, UtcOffset)),
   FilterTask(<<"t", "3">>, 0, Tags(<<>>), NoDue),
   FilterTask(<<"t", "4">>, 0, Tags(<<TagB>>), DueAt(2, 26, 0, 0, 0, Utc)),
   FilterTask(<<"t", "5">>, 0, NoTags, DueAt(2, 24, 23, 59, 59, Utc)),
   FilterTask(<<"t", "6">>, 0, Tags(<<TagA>>), DueAt(2, 26, 0, 30, 0, OneHourAhead)),
   FilterTask(<<"t", "7">>, 2, Tags(<<>>), DueAt(3, 1, 0, 0, 0, UtcOffset))}

NoDay == [text |-> NULL, start |-> -1]

FilterDay(m, d) == [text |-> DayText(m, d), start |-> DayStart(m, d)]

FilterDays == {NoDay, FilterDay(2, 25), FilterDay(2, 28), FilterDay(3, 1)}

FilterChange(f) ==
  /\ filt' = f
  /\ UNCHANGED <<store, now, st, tool, cache>>
  /\ UNCHANGED inboxVars
  /\ UNCHANGED cliVars

\* filterTasks is applied to the tasks and options drawn.
ApplyFilter ==
  /\ filt.pc = "ready"
  /\ FilterChange([filt EXCEPT !.pc = "done",
                               !.result = filterTasks(filt.tasks, filt.options)])

InitFilter ==
  /\ store = [a \in Accounts |-> NULL]
  /\ now = 0
  /\ st = [p \in Procs |-> Idle]
  /\ InboxIdle
  /\ tool = [pc |-> "idle"]
  /\ cache = [pc |-> "idle"]
  /\ CliIdle
  /\ \E n \in 0..MaxFilterTasks :
       \E tasks \in [1..n -> FilterTasksPool] :
         \E includeCompleted \in BOOLEAN, tag \in {NULL, TagA}, before, after \in FilterDays :
           filt = [pc |-> "ready", tasks |-> tasks, result |-> <<>>,
                   options |-> [includeCompleted |-> includeCompleted, tag |-> tag,
                                dueBefore |-> before.text, dueAfter |-> after.text],
                   days |-> [before |-> before.start, after |-> after.start]]

NextFilter == ApplyFilter

SpecFilter == InitFilter /\ [][NextFilter]_vars

\* =============================================================== Keychain
\* One Keychain.set and one Keychain.get of the same account, each a
\* sequence of security commands; the two calls may overlap.
KcValues == {<<"o", "l", "d">>, <<"n", "e", "w">>, <<" ", "x">>}

IsSpace(ch) == ch \in {" ", "\n", "\t"}

RECURSIVE TrimStart(_)
TrimStart(text) ==
  IF text # <<>> /\ IsSpace(Head(text)) THEN TrimStart(Tail(text)) ELSE text

RECURSIVE TrimEnd(_)
TrimEnd(text) ==
  IF text # <<>> /\ IsSpace(text[Len(text)])
  THEN TrimEnd(SubSeq(text, 1, Len(text) - 1)) ELSE text

\* stdout.trim()
Trim(text) == TrimEnd(TrimStart(text))

\* What find-generic-password -w prints for a stored password.
FindStdout(password) == password \o <<"\n">>

KcChange(k) ==
  /\ kc' = k
  /\ UNCHANGED <<now, st, cli>>
  /\ UNCHANGED inboxVars
  /\ UNCHANGED toolVars

\* set(account, password) is called: delete-generic-password is run.
KcSet ==
  /\ kc.set.pc = "idle"
  /\ KcChange([kc EXCEPT !.set.pc = "delete"])
  /\ UNCHANGED store

\* The delete command has ended; its failure is ignored, and
\* add-generic-password is run.
KcDeleted ==
  /\ kc.set.pc = "delete"
  /\ \E ok \in BOOLEAN :
       /\ store' = IF ok THEN [store EXCEPT ![kc.account] = NULL] ELSE store
       /\ KcChange([kc EXCEPT !.set.pc = "add", !.set.deleted = ok])

\* The add command has ended: it stores the password when the account has
\* no item, and fails otherwise or for a reason of its own; set rejects when
\* it fails.
KcAdded ==
  /\ kc.set.pc = "add"
  /\ \E ok \in {store[kc.account] = NULL, FALSE} :
       /\ store' = IF ok THEN [store EXCEPT ![kc.account] = kc.password] ELSE store
       /\ KcChange([kc EXCEPT !.set.pc = "done",
                              !.set.result = IF ok THEN Ok(NULL) ELSE KeychainError])

\* get(account) is called: find-generic-password -w is run.
KcGet ==
  /\ kc.get.pc = "idle"
  /\ KcChange([kc EXCEPT !.get.pc = "find", !.get.setAtCall = kc.set.pc])
  /\ UNCHANGED store

\* The find command has ended: the trimmed output, or null when it failed
\* (no item for the account).
KcFound ==
  /\ kc.get.pc = "find"
  /\ KcChange([kc EXCEPT !.get.pc = "done", !.get.setAtFind = kc.set.pc,
                         !.get.result = IF store[kc.account] = NULL THEN NULL
                                        ELSE Trim(FindStdout(store[kc.account]))])
  /\ UNCHANGED store

InitKeychain ==
  /\ \E a \in Accounts, old \in KcValues \cup {NULL}, new \in KcValues :
       /\ store = [b \in Accounts |-> IF b = a THEN old ELSE NULL]
       /\ kc = [pc |-> "live", account |-> a, old |-> old, password |-> new,
                set |-> [pc |-> "idle", deleted |-> FALSE, result |-> NoOutcome],
                get |-> [pc |-> "idle", setAtCall |-> "idle", setAtFind |-> "idle",
                         result |-> NULL]]
  /\ now = 0
  /\ st = [p \in Procs |-> Idle]
  /\ InboxIdle
  /\ tool = [pc |-> "idle"]
  /\ cache = [pc |-> "idle"]
  /\ filt = [pc |-> "idle"]
  /\ cli = [pc |-> "idle"]

NextKeychain == KcSet \/ KcDeleted \/ KcAdded \/ KcGet \/ KcFound

SpecKeychain == InitKeychain /\ [][NextKeychain]_vars

\* ======================================================= authorization CLI
\* One run of main(): the callback server and its timer, the promise of the
\* authorization code, the token exchange and the keychain writes.
AUTH_TIMEOUT_MS == 120000

\* The clock of a run advances in steps of this many milliseconds.
TickMs == 60000

\* The clock of a run is followed up to this many steps.
MaxTicks == 3

\* The callback server handles at most this many requests.
MaxRequests == 2

\* expires_in when the token response has none.
DEFAULT_EXPIRES_IN == 15552000

\* randomBytes(32).toString('hex'), the state of this run.
RunState == <<"s", "1">>

\* The requests the server may get: one for another path, and callbacks
\* with what url.searchParams.get gives for state, code and error (null
\* when the parameter is absent).
CallbackRequests ==
  {[path |-> "/", state |-> NULL, code |-> NULL, error |-> NULL]}
  \cup [path : {"/callback"},
        state : {RunState, <<"s", "2">>},
        code : {NULL, <<>>, <<"c">>},
        error : {NULL, <<>>, <<"access_denied">>}]

\* What the token endpoint answers to the exchange.
ExchangeBodies ==
  [access_token : {Undefined, JStr(<<"B">>)},
   refresh_token : {Undefined, JStr(<<"Q">>)},
   expires_in : {Undefined, JNum(3600)}]

\* main() up to the await of the code: the timer is armed and the server
\* listens.
Listening ==
  [pc |-> "listening", promise |-> "pending", code |-> NULL, timer |-> TRUE,
   serverOpen |-> TRUE, elapsedMs |-> 0, requests |-> <<>>, settled |-> <<>>,
   settleCalls |-> 0, exchanges |-> 0, exchangeOk |-> FALSE, data |-> NoData,
   nowAt |-> 0, nSet |-> 0, before |-> store]

\* process.exit(1)
Exit1(c) == [c EXCEPT !.pc = "exit1", !.timer = FALSE, !.serverOpen = FALSE]

CliChange(c) ==
  /\ cli' = c
  /\ UNCHANGED <<now, st, kc>>
  /\ UNCHANGED inboxVars
  /\ UNCHANGED toolVars

\* Mutant: a promise already settled is settled again.
IsPendingAlways(promise) == TRUE

\* resolve and reject act on a pending promise only.
IsPending(promise) == promise = "pending"

\* reject(new Error(...)): main().catch prints the error and exits.
Reject(c, cause) ==
  LET c1 == [c EXCEPT !.settleCalls = @ + 1] IN
  IF IsPending(c.promise)
  THEN Exit1([c1 EXCEPT !.promise = "rejected", !.settled = Append(@, cause)])
  ELSE c1

\* resolve(authCode): main goes on to the token exchange.
Resolve(c, authCode) ==
  LET c1 == [c EXCEPT !.settleCalls = @ + 1] IN
  IF IsPending(c.promise)
  THEN [c1 EXCEPT !.promise = "resolved", !.settled = Append(@, "code"),
                  !.code = authCode, !.pc = "exchange", !.exchanges = @ + 1]
  ELSE c1

\* clearTimeout(timeout); httpServer.close()
Closed(c) == [c EXCEPT !.timer = FALSE, !.serverOpen = FALSE]

\* Mutant: the state of the callback is not compared.
StateMismatchNever(returnedState) == FALSE

\* returnedState !== state
StateMismatch(returnedState) == returnedState # RunState

\* The request handler of the callback server.
Handle(c, req) ==
  LET c1 == [c EXCEPT !.requests = Append(@, req)] IN
  IF req.path # "/callback" THEN c1
  ELSE IF Truthy(req.error) THEN Reject(Closed(c1), "error")
  ELSE IF StateMismatch(req.state) THEN Reject(Closed(c1), "state")
  ELSE IF ~Truthy(req.code) THEN Reject(Closed(c1), "nocode")
  ELSE Resolve(Closed(c1), req.code)

\* The process is running.
CliAlive == cli.pc \notin {"idle", "exit1", "complete"}

\* main() is run with or without its environment variables.
CliMain ==
  /\ cli.pc = "idle"
  /\ \E env \in BOOLEAN :
       CliChange(IF env THEN Listening ELSE Exit1([Listening EXCEPT !.promise = "none"]))
  /\ UNCHANGED store

\* A request reaches the server: on a new connection while it listens, or
\* on a connection kept open after close().
CliRequest ==
  /\ CliAlive
  /\ Len(cli.requests) < MaxRequests
  /\ cli.serverOpen \/ cli.requests # <<>>
  /\ \E req \in CallbackRequests : CliChange(Handle(cli, req))
  /\ UNCHANGED store

\* The timer fires after TIMEOUT_MS: the server is closed and the promise
\* rejected.
CliTimeout ==
  /\ CliAlive
  /\ cli.timer
  /\ cli.elapsedMs >= AUTH_TIMEOUT_MS
  /\ CliChange(Reject([cli EXCEPT !.timer = FALSE, !.serverOpen = FALSE], "timeout"))
  /\ UNCHANGED store

\* Time passes; an armed timer fires before time passes its delay.
CliTick ==
  /\ CliAlive
  /\ cli.elapsedMs < MaxTicks * TickMs
  /\ cli.timer => cli.elapsedMs < AUTH_TIMEOUT_MS
  /\ CliChange([cli EXCEPT !.elapsedMs = @ + TickMs])
  /\ UNCHANGED store

\* The token exchange has ended: the fetch rejected, the answer is not ok,
\* its body is no JSON, or main has the data and the time and starts the
\* keychain writes.
CliExchanged ==
  /\ cli.pc = "exchange"
  /\ \/ \E failure \in {"rejected", "not_ok", "no_json"} : CliChange(Exit1(cli))
     \/ \E data \in ExchangeBodies :
          CliChange([cli EXCEPT !.pc = "set_client_secret", !.exchangeOk = TRUE,
                                !.data = data, !.nowAt = now])
  /\ UNCHANGED store

\* One awaited keychain.set(account, value) of main; a value that is no
\* string makes the add command fail.
CliKeychainSet(account, value, next) ==
  \E o \in (IF value = NULL THEN SetOutcomes \ {"ok"} ELSE SetOutcomes) :
    /\ store' = CASE o = "ok" -> [store EXCEPT ![account] = value]
                  [] o = "failed_kept" -> store
                  [] o = "failed_deleted" -> [store EXCEPT ![account] = NULL]
    /\ CliChange(IF o = "ok" THEN [cli EXCEPT !.pc = next, !.nSet = @ + 1]
                 ELSE Exit1([cli EXCEPT !.nSet = @ + 1]))

\* The TICKTICK_CLIENT_SECRET of the environment.
EnvClientSecret == <<"S">>

CliSetClientSecret ==
  /\ cli.pc = "set_client_secret"
  /\ CliKeychainSet("client_secret", EnvClientSecret, "set_access_token")

\* if (data.refresh_token) after the access_token write.
CliAfterAccessToken(data) ==
  IF data.refresh_token.type = "string" /\ Truthy(data.refresh_token.s)
  THEN "set_refresh_token" ELSE "set_expires_at"

CliSetAccessToken ==
  /\ cli.pc = "set_access_token"
  /\ CliKeychainSet("access_token",
                    IF cli.data.access_token.type = "string" THEN cli.data.access_token.s
                    ELSE NULL,
                    CliAfterAccessToken(cli.data))

CliSetRefreshToken ==
  /\ cli.pc = "set_refresh_token"
  /\ CliKeychainSet("refresh_token", cli.data.refresh_token.s, "set_expires_at")

\* String(now + (data.expires_in ?? 15552000))
CliExpiresAt(t, data) ==
  String(t + (IF data.expires_in.type = "undefined" THEN DEFAULT_EXPIRES_IN
              ELSE data.expires_in.n))

CliSetExpiresAt ==
  /\ cli.pc = "set_expires_at"
  /\ CliKeychainSet("expires_at", CliExpiresAt(cli.nowAt, cli.data), "complete")

InitCli ==
  /\ store \in {[a \in Accounts |-> NULL],
                [a \in Accounts |-> IF a = "inbox_id" THEN NULL ELSE <<"A">>]}
  /\ now \in {0, MaxNow}
  /\ st = [p \in Procs |-> Idle]
  /\ InboxIdle
  /\ ToolsIdle

NextCli ==
  \/ CliMain
  \/ CliRequest
  \/ CliTimeout
  \/ CliTick
  \/ CliExchanged
  \/ CliSetClientSecret
  \/ CliSetAccessToken
  \/ CliSetRefreshToken
  \/ CliSetExpiresAt

SpecCli == InitCli /\ [][NextCli]_vars

\* ================================================================ claims
Requests == {p \in Procs : st[p].op = "request"}

Finished(p) == st[p].pc = "done"

Statuses(p) == [i \in 1..Len(st[p].responses) |-> st[p].responses[i].status]

HasReauthGuidance(e) == \E i \in 1..Len(e.message) : e.message[i] = ReauthGuidance

\* A decimal numeral, as a Retry-After header or a stored expires_at.
Numeral(s) == s # NULL /\ s # <<>> /\ AllDigits(s)

\* No discovery has failed, and no request made for one.
NoDiscoveryFailed ==
  /\ \A i \in 1..Len(promises) : promises[i].kind # "Error"
  /\ probes.cleanupFailed = 0
  /\ probes.persistFailed = 0

\* C1: calls issued while nothing is cached or persisted, none of them
\* failing, end with one sentinel creation, one completion attempt and the
\* same identifier for all.
C1_ConcurrentCallsShareOneProbe ==
  /\ \A c \in Callers : caller[c].pc = "done" /\ caller[c].cold
  /\ NoDiscoveryFailed
  => /\ probes.create = 1
     /\ probes.complete = 1
     /\ \A c \in Callers : caller[c].result = Ok(serverInbox)

\* C2: as long as no discovery fails, at most one sentinel is created in
\* the lifetime of the process.
C2_AtMostOneProbe == NoDiscoveryFailed => probes.create <= 1

\* C3: one logical request performs at most two HTTP exchanges, the second
\* only after the first answered 401, and never a third.
C3_AtMostTwoExchanges ==
  \A p \in Requests :
    /\ st[p].nFetch <= 2
    /\ Len(st[p].responses) <= st[p].nFetch
    /\ st[p].nFetch = 2 => st[p].responses[1].status = 401

C3_Witness ==
  \E p \in Requests :
    Finished(p) /\ st[p].nFetch = 2 /\ Statuses(p) = <<401, 200>>

TokenCalls == {p \in Procs : st[p].op \in {"getValidAccessToken", "forceRefresh"}}

GvatCalls == {p \in Procs : st[p].op = "getValidAccessToken"}

\* The refresh got an answer that is non-2xx, unparseable, without a string
\* access_token, or without a numeric expires_in.
BadTokenResponse(p) ==
  /\ st[p].nTokenFetch > 0
  /\ st[p].pc # "token_fetch"
  /\ st[p].outcome.kind \notin TransportFailures
  /\ LET r == st[p].tokenResponse IN
       \/ ~r.ok
       \/ ~r.parses
       \/ r.body.access_token.type # "string"
       \/ r.body.expires_in.type # "number"

\* C6: a refresh that fails on its response writes no secret and, once it has
\* ended, has failed with AuthError and left every secret as it was.
C6_FailedRefreshWritesNothing ==
  \A p \in TokenCalls :
    BadTokenResponse(p)
      => /\ st[p].nSet = 0
         /\ store = st[p].before
         /\ st[p].pc = "done"
         /\ st[p].outcome.kind = "AuthError"

C6_Witness ==
  \E p \in TokenCalls :
    /\ BadTokenResponse(p)
    /\ st[p].tokenResponse.ok
    /\ st[p].tokenResponse.parses
    /\ st[p].tokenResponse.body.access_token.type = "string"
    /\ st[p].tokenResponse.body.expires_in.type = "undefined"
    /\ Truthy(st[p].before["access_token"])

\* The stored credentials are present and the clock read by the call is
\* more than the margin before the stored expiry.
StoredTokenUsable(p) ==
  /\ Truthy(st[p].before["access_token"])
  /\ Numeral(st[p].before["expires_at"])
  /\ st[p].nowGvat < DecimalValue(st[p].before["expires_at"]) - 60

\* The call returned the stored token and never called the token endpoint.
ReturnedStoredToken(p) ==
  /\ st[p].outcome = Ok(st[p].before["access_token"])
  /\ st[p].nTokenFetch = 0

\* C7: getValidAccessToken returns the stored token with no refresh call
\* exactly when access_token and expires_at are present (non-empty) and
\* now < expires_at - 60.
C7_CachedExactlyWhenValid ==
  \A p \in GvatCalls :
    Finished(p) => (ReturnedStoredToken(p) <=> StoredTokenUsable(p))

C7_Witness ==
  \E p \in GvatCalls :
    /\ Finished(p)
    /\ ReturnedStoredToken(p)
    /\ Numeral(st[p].before["expires_at"])
    /\ DecimalValue(st[p].before["expires_at"]) = st[p].nowGvat + 61

\* The stored credentials are present and the stored expiry is within the
\* margin (inclusive) of the clock read by the call, or in the past.
StoredTokenNearExpiry(p) ==
  /\ Truthy(st[p].before["access_token"])
  /\ Numeral(st[p].before["expires_at"])
  /\ DecimalValue(st[p].before["expires_at"]) - st[p].nowGvat <= 60

RefreshSecretsPresent(p) ==
  Truthy(st[p].before["refresh_token"]) /\ Truthy(st[p].before["client_secret"])

\* C8 as stated: a stored token within the margin or expired makes
\* getValidAccessToken call the token endpoint exactly once.
C8_NearExpiryRefreshesOnce ==
  \A p \in GvatCalls :
    Finished(p) /\ StoredTokenNearExpiry(p) => st[p].nTokenFetch = 1

\* C8 amended: it does so when refresh_token and client_secret are present;
\* without them it fails with AuthError and calls the endpoint not at all.
C8_NearExpiryRefreshesOnceWithSecrets ==
  \A p \in GvatCalls :
    Finished(p) /\ StoredTokenNearExpiry(p)
      => IF RefreshSecretsPresent(p)
         THEN st[p].nTokenFetch = 1
         ELSE st[p].nTokenFetch = 0 /\ st[p].outcome.kind = "AuthError"

C8_Witness ==
  \E p \in GvatCalls :
    /\ Finished(p)
    /\ StoredTokenNearExpiry(p)
    /\ DecimalValue(st[p].before["expires_at"]) - st[p].nowGvat = 60
    /\ st[p].nTokenFetch = 1
    /\ st[p].outcome.kind = "ok"

\* C9: with access_token or expires_at absent getValidAccessToken makes no
\* network call and fails with AuthError, whatever else is stored.
C9_MissingCredentialsFailFast ==
  \A p \in GvatCalls :
    ~Truthy(st[p].before["access_token"]) \/ ~Truthy(st[p].before["expires_at"])
      => /\ st[p].nTokenFetch = 0
         /\ st[p].nFetch = 0
         /\ Finished(p) => st[p].outcome.kind = "AuthError"

C9_Witness ==
  \E p \in GvatCalls :
    /\ Finished(p)
    /\ Truthy(st[p].before["access_token"])
    /\ st[p].before["expires_at"] = NULL
    /\ RefreshSecretsPresent(p)
    /\ st[p].outcome.kind = "AuthError"

\* C10: a 429 ends the request with a RateLimitError whose retryAfter is the
\* Retry-After header when it is present and numeric, and 60 otherwise.
C10_RetryAfterDefaultsTo60 ==
  \A p \in Requests :
    Finished(p) /\ Len(st[p].responses) > 0
      /\ st[p].responses[Len(st[p].responses)].status = 429
      => LET h == st[p].responses[Len(st[p].responses)].retryAfter IN
           /\ st[p].outcome.kind = "TickTickRateLimitError"
           /\ st[p].outcome.retryAfter =
                IF Numeral(h) THEN Num(DecimalValue(h)) ELSE Num(60)

\* The first exchange of the request ended in a way that is not retried:
\* 429, another non-2xx status that is not 401, a 2xx answer whose body is
\* not empty and does not parse, or no answer at all.
FirstAttemptNotRetried(p) ==
  /\ Len(st[p].responses) > 0
  /\ LET r == st[p].responses[1] IN
       \/ r = NoResponse
       \/ r.status = 429
       \/ r.status \notin 200..299 /\ r.status # 401 /\ r.status # 0
       \/ r.status \in 200..299 /\ r.text # <<>> /\ ~JsonParses(r.text)

\* C11: a first attempt ending in 429, another non-2xx status that is not
\* 401, an unparseable 2xx body or a transport failure ends the request with
\* an error after that one exchange, with no retry and no forceRefresh; a
\* transport failure keeps its own kind.
C11_SurfacedWithoutRetry ==
  \A p \in Requests :
    FirstAttemptNotRetried(p)
      => /\ Finished(p)
         /\ st[p].nFetch = 1
         /\ Len(st[p].responses) = 1
         /\ st[p].nForce = 0
         /\ ~st[p].isRetry
         /\ st[p].outcome.kind # "ok"
         /\ IF st[p].responses[1] = NoResponse
            THEN st[p].outcome.kind \in TransportFailures
            ELSE st[p].outcome.kind \in {"TickTickApiError", "TickTickRateLimitError"}

C11_Witness ==
  \E p \in Requests :
    /\ Finished(p)
    /\ st[p].responses = <<NoResponse>>
    /\ st[p].outcome.kind = "TimeoutError"
    /\ st[p].nFetch = 1

\* The body text an error message quotes after "Response is not valid JSON: ".
QuotedBody(e) ==
  LET k == CHOOSE i \in 1..Len(e.message) : e.message[i] = "Response is not valid JSON: "
  IN SubSeq(e.message, k + 1, Len(e.message))

\* C12: a 2xx answer with an empty body gives null, with a body that parses
\* the parsed value, and otherwise a TickTickApiError of that status quoting
\* the body whole when it has at most 200 characters and else its first 200
\* characters followed by the ellipsis.
C12_SuccessClassifiedByBody ==
  \A p \in Requests :
    Finished(p) /\ Len(st[p].responses) > 0
      /\ st[p].responses[Len(st[p].responses)].status \in 200..299
      => LET r == st[p].responses[Len(st[p].responses)] IN
           IF r.text = <<>> THEN st[p].outcome = Ok(NULL)
           ELSE IF JsonParses(r.text) THEN st[p].outcome = Ok(JsonParse(r.text))
           ELSE /\ st[p].outcome.kind = "TickTickApiError"
                /\ st[p].outcome.status = r.status
                /\ IF Len(r.text) <= 200
                   THEN QuotedBody(st[p].outcome) = r.text
                   ELSE /\ Len(QuotedBody(st[p].outcome)) = 201
                        /\ \A i \in 1..200 : QuotedBody(st[p].outcome)[i] = r.text[i]
                        /\ QuotedBody(st[p].outcome)[201] = "..."

C12_Witness ==
  \E p \in Requests :
    /\ Finished(p)
    /\ Len(st[p].responses) = 1
    /\ st[p].responses[1].status = 200
    /\ Len(st[p].responses[1].text) = 201
    /\ st[p].outcome.kind = "TickTickApiError"
    /\ Len(QuotedBody(st[p].outcome)) = 201

\* The outcome kinds of a request, and the results a caller matching on the
\* error class takes for each.
OutcomeKinds == {"Success", "RateLimited", "AuthenticationFailed", "ApiFailure"}

Matches(e, k) ==
  CASE k = "Success" -> e.kind = "ok"
    [] k = "RateLimited" -> InstanceOf(e, "TickTickRateLimitError")
    [] k = "AuthenticationFailed" -> InstanceOf(e, "AuthError")
    [] k = "ApiFailure" -> InstanceOf(e, "TickTickApiError")

Matched(e) == {k \in OutcomeKinds : Matches(e, k)}

\* C13 as stated: a request that has ended has one outcome, which a caller
\* matching on error kind takes for at most one of Success, RateLimited,
\* AuthenticationFailed and ApiFailure.
C13_OutcomeKindsExclusive ==
  \A p \in Requests :
    /\ Finished(p) <=> st[p].outcome # NoOutcome
    /\ Finished(p) => Cardinality(Matched(st[p].outcome)) <= 1

\* C13 amended: a request that has ended has one outcome; Success and
\* AuthenticationFailed exclude every other kind, while a RateLimited result
\* is an ApiFailure (of status 429) as well, so that only a caller matching
\* RateLimited before ApiFailure takes each result for one kind.
C13_RateLimitedIsAlsoApiFailure ==
  \A p \in Requests :
    /\ Finished(p) <=> st[p].outcome # NoOutcome
    /\ Finished(p) =>
         LET e == st[p].outcome IN
           /\ Matched(e) \in {{"Success"}, {"AuthenticationFailed"}, {"ApiFailure"},
                               {"RateLimited", "ApiFailure"}, {}}
           /\ Matched(e) = {} <=> e.kind \in TransportFailures \cup {"KeychainError"}
           /\ e.kind = "TickTickRateLimitError"
                => Matched(e) = {"RateLimited", "ApiFailure"} /\ e.status = 429

C13_Witness ==
  \E p \in Requests :
    /\ Finished(p)
    /\ Statuses(p) = <<429>>
    /\ Matches(st[p].outcome, "RateLimited")
    /\ Matches(st[p].outcome, "ApiFailure")

\* The direct TokenManager call refreshed and returned a token.
RefreshSucceeded(p) ==
  /\ Finished(p)
  /\ st[p].nTokenFetch = 1
  /\ st[p].outcome.kind = "ok"

\* The token response carried a (non-empty) refresh_token.
ResponseHasRefreshToken(p) ==
  /\ st[p].data.refresh_token.type = "string"
  /\ st[p].data.refresh_token.s # <<>>

\* C14: after a successful refresh the store holds the access_token of the
\* response, the numeral of now + expires_in as expires_at, and the
\* refresh_token of the response when it carried one (three writes), else the
\* refresh_token it held before (two writes); every other secret is as it
\* was, and the call returns the new access token.
C14_SuccessfulRefreshPersists ==
  \A p \in TokenCalls :
    RefreshSucceeded(p)
      => /\ store["access_token"] = st[p].data.access_token.s
         /\ Numeral(store["expires_at"])
         /\ DecimalValue(store["expires_at"]) = st[p].nowRefresh + st[p].data.expires_in.n
         /\ IF ResponseHasRefreshToken(p)
            THEN store["refresh_token"] = st[p].data.refresh_token.s /\ st[p].nSet = 3
            ELSE store["refresh_token"] = st[p].before["refresh_token"] /\ st[p].nSet = 2
         /\ store["client_secret"] = st[p].before["client_secret"]
         /\ store["inbox_id"] = st[p].before["inbox_id"]
         /\ st[p].outcome = Ok(st[p].data.access_token.s)

C14_Witness ==
  \E p \in TokenCalls :
    /\ RefreshSucceeded(p)
    /\ ResponseHasRefreshToken(p)
    /\ st[p].nSet = 3
    /\ store["refresh_token"] = <<"Q">>
    /\ st[p].nowRefresh > 0
    /\ store["expires_at"] # st[p].before["expires_at"]

ForceCalls == {p \in Procs : st[p].op = "forceRefresh"}

\* C15: forceRefresh never reads the stored access_token or expires_at; with
\* refresh_token and client_secret present it calls the token endpoint once,
\* whatever the stored expiry, and without them not at all.
C15_ForceRefreshAlwaysRefreshes ==
  \A p \in ForceCalls :
    /\ st[p].nGvat = 0
    /\ st[p].pc \notin {"get_access_token", "get_expires_at"}
    /\ Finished(p) =>
         IF RefreshSecretsPresent(p)
         THEN st[p].nTokenFetch = 1
         ELSE st[p].nTokenFetch = 0 /\ st[p].outcome.kind = "AuthError"

\* forceRefresh has called the endpoint in a state in which the stored token
\* is more than the margin before its expiry.
C15_Witness ==
  \E p \in ForceCalls :
    /\ Finished(p)
    /\ Truthy(st[p].before["access_token"])
    /\ Numeral(st[p].before["expires_at"])
    /\ now < DecimalValue(st[p].before["expires_at"]) - 60
    /\ st[p].nTokenFetch = 1
    /\ st[p].outcome.kind = "ok"

\* C16: once a refresh call has returned or failed, the stored access_token
\* and the stored expires_at are both as they were before the call, or both
\* those of the token response the call received.
C16_TokenAndExpiryFromSameResponse ==
  \A p \in TokenCalls :
    Finished(p)
      => \/ /\ store["access_token"] = st[p].before["access_token"]
            /\ store["expires_at"] = st[p].before["expires_at"]
         \/ /\ st[p].nSet > 0
            /\ store["access_token"] = st[p].data.access_token.s
            /\ store["expires_at"] = String(st[p].nowRefresh + st[p].data.expires_in.n)

\* C17: a call that has entered the refresh procedure with refresh_token or
\* client_secret absent never calls the token endpoint, writes no secret,
\* and ends with an AuthError that tells the user to re-authorize.
C17_RefreshWithoutSecretsFails ==
  \A p \in Procs :
    st[p].nRefresh > 0 /\ ~RefreshSecretsPresent(p)
      => /\ st[p].nTokenFetch = 0
         /\ st[p].nSet = 0
         /\ store = st[p].before
         /\ st[p].pc \in {"get_refresh_token", "get_client_secret", "done"}
         /\ Finished(p) => st[p].outcome.kind = "AuthError"
                            /\ HasReauthGuidance(st[p].outcome)

C17_Witness ==
  \E p \in ForceCalls :
    /\ Finished(p)
    /\ st[p].nRefresh = 1
    /\ st[p].before["refresh_token"] = <<"R">>
    /\ st[p].before["client_secret"] = NULL
    /\ st[p].outcome.kind = "AuthError"

NoIO == [reads |-> 0, writes |-> 0, requests |-> 0]

\* C18: a getInboxProjectId call made after a call has returned an
\* identifier returns that identifier at once and issues no SecretStore read,
\* no SecretStore write and no network request; the identifiers returned by
\* one client are all the same.
C18_LaterCallsAnswerFromMemory ==
  /\ \A c \in Callers :
       caller[c].pc # "idle" /\ caller[c].returnedBefore # NULL
         => /\ caller[c].pc = "done"
            /\ caller[c].result = Ok(caller[c].returnedBefore)
            /\ caller[c].io = NoIO
  /\ \A c, d \in Callers :
       caller[c].result.kind = "ok" /\ caller[d].result.kind = "ok"
         => caller[c].result = caller[d].result

\* A call made after a discovery had returned its identifier.
C18_Witness ==
  \E c, d \in Callers :
    /\ caller[d].pc = "done"
    /\ caller[d].io.requests = 2
    /\ caller[d].result = Ok(serverInbox)
    /\ caller[c].pc = "done"
    /\ caller[c].returnedBefore = serverInbox
    /\ caller[c].result = Ok(serverInbox)
    /\ caller[c].io = NoIO

\* C19: a call made with the memory cell empty and an identifier persisted
\* issues no network request and no write, and returns the persisted
\* identifier with the memory cell holding it.
C19_PersistedAnswersWithoutNetwork ==
  \A c \in Callers :
    /\ caller[c].pc # "idle"
    /\ caller[c].memoryAtCall = NULL
    /\ Truthy(caller[c].persistedAtCall)
    => /\ caller[c].io.requests = 0
       /\ caller[c].io.writes = 0
       /\ caller[c].pc \in {"read", "resume", "done"}
       /\ caller[c].pc = "done"
            => /\ caller[c].result = Ok(caller[c].persistedAtCall)
               /\ caller[c].io.reads = 1
               /\ inboxId = caller[c].persistedAtCall
               /\ probes.create = 0

C19_Witness ==
  \E c \in Callers :
    /\ caller[c].pc = "done"
    /\ caller[c].memoryAtCall = NULL
    /\ caller[c].persistedAtCall \in InboxIds
    /\ caller[c].persistedAtCall # serverInbox
    /\ caller[c].result = Ok(caller[c].persistedAtCall)
    /\ inboxId = caller[c].persistedAtCall

\* The discoveries whose sentinel creation failed or gave no identifier.
FailedDiscoveries == {i \in 1..Len(promises) : promises[i] = DiscoveryFailed}

\* C20: of a discovery whose sentinel creation failed or gave no usable
\* identifier, the discoverer and every waiter that has its answer have
\* failed, none of them has found or written an identifier, and the marker
\* no longer points to it; as long as no creation has given an identifier
\* nothing is in memory or persisted.
C20_FailedDiscoveryLeavesNothing ==
  /\ \A i \in FailedDiscoveries :
       /\ pending # i
       /\ \A c \in Callers :
            caller[c].attached = i
              => /\ caller[c].pc \in {"wait", "done"}
                 /\ caller[c].pc = "done" => caller[c].result = DiscoveryFailed
                 /\ caller[c].found = NULL
                 /\ caller[c].io.writes = 0
  /\ (FailedDiscoveries # {} /\ \A c \in Callers : caller[c].found = NULL)
       => inboxId = NULL /\ store["inbox_id"] = NULL
  /\ pending # 0 => promises[pending] = NoOutcome

\* A discovery has failed for its discoverer and a waiter, and a call made
\* after that has started a new one.
C20_Witness ==
  \E c, w, d \in Callers :
    /\ c # w
    /\ caller[c].attached = 1 /\ caller[w].attached = 1
    /\ caller[c].io.requests = 1
    /\ caller[w].io.requests = 0
    /\ caller[c].result = DiscoveryFailed
    /\ caller[w].result = DiscoveryFailed
    /\ caller[d].pc = "create"
    /\ caller[d].attached = 2
    /\ pending = 2
    /\ inboxId = NULL
    /\ store["inbox_id"] = NULL

\* C21: a discoverer whose sentinel completion failed goes on to the
\* SecretStore write and ends with the identifier found, the memory cell
\* holding it.
C21_CleanupFailureIgnored ==
  \A c \in Callers :
    caller[c].cleanupFailed
      => /\ caller[c].pc \in {"persist", "done"}
         /\ caller[c].io.writes = 1
         /\ caller[c].found = serverInbox
         /\ caller[c].pc = "done"
              => /\ caller[c].result = Ok(caller[c].found)
                 /\ inboxId = caller[c].found
                 /\ promises[caller[c].attached] = Ok(caller[c].found)

C21_Witness ==
  \E c \in Callers :
    /\ caller[c].cleanupFailed
    /\ ~caller[c].persistFailed
    /\ caller[c].pc = "done"
    /\ caller[c].result = Ok(serverInbox)
    /\ store["inbox_id"] = serverInbox
    /\ inboxId = serverInbox

\* C22: a discoverer whose SecretStore write failed ends with the identifier
\* found, the memory cell holding it; a call that finds the memory cell
\* filled returns its content and issues no request.
C22_PersistFailureIgnored ==
  /\ \A c \in Callers :
       caller[c].persistFailed
         => /\ caller[c].pc = "done"
            /\ caller[c].result = Ok(caller[c].found)
            /\ caller[c].found = serverInbox
            /\ inboxId = caller[c].found
  /\ \A d \in Callers :
       caller[d].pc # "idle" /\ caller[d].memoryAtCall # NULL
         => /\ caller[d].pc = "done"
            /\ caller[d].result = Ok(caller[d].memoryAtCall)
            /\ caller[d].io = NoIO

\* The write failed, nothing is persisted, and a later call was answered
\* from memory with one sentinel created in all.
C22_Witness ==
  \E c, d \in Callers :
    /\ caller[c].persistFailed
    /\ store["inbox_id"] = NULL
    /\ caller[d].pc = "done"
    /\ caller[d].memoryAtCall = caller[c].found
    /\ caller[d].persistedAtCall = NULL
    /\ caller[d].result = Ok(caller[c].found)
    /\ probes.create = 1

\* ------------------------------------------------------------ tool layer
ToolDone == tool.pc = "done"

\* The positions of the client calls that threw.
ThrownCalls == {k \in 1..Len(tool.calls) : tool.calls[k].threw}

\* The call at position k is part of the inbox lookup of a listing tool.
InboxLookup(k) ==
  \/ tool.calls[k].method = "getInboxProjectId"
  \/ /\ tool.calls[k].method = "getProjectData"
     /\ k > 1
     /\ tool.calls[k - 1].method = "getInboxProjectId"

\* C23 as stated: every failed client call ends in an isError result.
C23_EveryFailureIsError == ToolDone /\ ThrownCalls # {} => tool.result.isError

\* C23: every handler ends with a result that carries a text; a failed
\* client call gives isError, except a failed inbox lookup of
\* ticktick_get_projects or ticktick_get_tasks, which gives a result that
\* is no error.
C23_FailureIsErrorUnlessInboxLookup ==
  ToolDone
    => /\ tool.result.text # <<>>
       /\ \A k \in ThrownCalls :
            /\ ~InboxLookup(k) => tool.result.isError /\ tool.caught # NotCaught
            /\ InboxLookup(k) => ~tool.result.isError

\* A simple handler's call threw a value that is no Error.
C23_Witness ==
  /\ ToolDone
  /\ tool.name = "ticktick_complete_task"
  /\ ThrownCalls = {1}
  /\ tool.caught = ThrownNull
  /\ tool.result.isError
  /\ tool.result.text = <<"Failed to complete task: ", "Unexpected error: ", "n", "u", "l", "l">>

Moving == tool.pc # "idle" /\ tool.name = "ticktick_move_task"

CompleteCalls == {k \in 1..Len(tool.calls) : tool.calls[k].method = "completeTask"}

\* The source task of a move is one the API sent whole.
SourceTaskValid ==
  /\ tool.raw.type = "object"
  /\ tool.raw.id.type = "string"
  /\ tool.raw.status.type = "number"

\* C24: in ticktick_move_task completeTask is called only right after a
\* createTask call that did not throw; when getTask throws, when the
\* fetched task is null or fails validation, or when createTask throws, the
\* handler ends with isError and without a completeTask call.
C24_CompleteOnlyAfterCreate ==
  Moving
    => /\ \A k \in CompleteCalls :
            /\ k = 3
            /\ tool.calls[1] = [method |-> "getTask", threw |-> FALSE]
            /\ tool.calls[2] = [method |-> "createTask", threw |-> FALSE]
            /\ SourceTaskValid
       /\ (1 \in ThrownCalls \/ 2 \in ThrownCalls
           \/ (Len(tool.calls) = 1 /\ ToolDone /\ ~SourceTaskValid))
            => /\ ToolDone
               /\ tool.result.isError
               /\ CompleteCalls = {}

\* getTask answered null: the move ends in an error after one call.
C24_Witness ==
  /\ Moving
  /\ ToolDone
  /\ tool.raw = JNull
  /\ tool.calls = <<[method |-> "getTask", threw |-> FALSE]>>
  /\ tool.result.isError

InboxIdThrew ==
  \E k \in ThrownCalls : tool.calls[k].method = "getInboxProjectId"

\* The tasks of the answers served so far, in the order served.
RECURSIVE ServedTasks(_)
ServedTasks(served) ==
  IF served = <<>> THEN <<>>
  ELSE (IF TickTickProjectDataRawParses(Head(served)) THEN Head(served).tasks.v ELSE <<>>)
       \o ServedTasks(Tail(served))

\* The ids of the served tasks that validate and pass the completed filter.
ExpectedTaskIds ==
  LET kept == SelectSeq(ServedTasks(tool.served),
                        LAMBDA r : /\ TickTickTaskParses(r)
                                   /\ (tool.args.includeCompleted \/ r.status.n # 2))
  IN [k \in 1..Len(kept) |-> kept[k].id.s]

ResultTaskIds == [k \in 1..Len(tool.result.data.tasks) |-> tool.result.data.tasks[k].id]

HasWarning(w) ==
  \E k \in 1..Len(tool.result.data.warnings) : tool.result.data.warnings[k] = w

\* C25: when getInboxProjectId throws, ticktick_get_projects answers with
\* exactly the listed projects and no error, and ticktick_get_tasks without
\* projectId answers with the tasks of the listed projects, no error, and
\* the warning about the inbox.
C25_InboxFailureDegrades ==
  ToolDone /\ InboxIdThrew
    => /\ ~tool.result.isError
       /\ tool.name = "ticktick_get_projects" => tool.result.data = JArray(tool.projects)
       /\ tool.name = "ticktick_get_tasks"
            => /\ Len(tool.served) = Len(tool.projects)
               /\ ResultTaskIds = ExpectedTaskIds
               /\ HasWarning(InboxDiscoveryFailed)

\* The inbox lookup of ticktick_get_tasks threw: the task of the listed
\* project is returned with the warning.
C25_Witness ==
  /\ ToolDone
  /\ InboxIdThrew
  /\ tool.name = "ticktick_get_tasks"
  /\ tool.projects = <<Work>>
  /\ ResultTaskIds = <<<<"t", "1">>>>
  /\ tool.result.data.warnings = <<InboxDiscoveryFailed>>

\* C26: when the inbox is discovered, is not among the listed projects and
\* its project data is fetched, the answer of ticktick_get_projects holds
\* an entry named Inbox with the discovered id, and every listed project.
C26_InboxAlwaysListed ==
  /\ ToolDone
  /\ tool.name = "ticktick_get_projects"
  /\ tool.inbox # NULL
  /\ ~AlreadyIncluded(tool.projects, tool.inbox)
  /\ ThrownCalls = {}
  /\ tool.raw.type = "object"
  /\ tool.raw.tasks.type = "array"
  => /\ ~tool.result.isError
     /\ \E k \in 1..Len(tool.result.data.v) :
          tool.result.data.v[k] = Project(tool.inbox, <<"Inbox">>)
     /\ \A j \in 1..Len(tool.projects) :
          \E k \in 1..Len(tool.result.data.v) : tool.result.data.v[k] = tool.projects[j]

\* The text formatToolError gave: the handler's result after its opening.
FormattedError == Tail(tool.result.text)

Caught == ToolDone /\ tool.caught # NotCaught

TimedOutText == <<"Request timed out. Try again.">>

IsAbortOrTimeout(e) ==
  \/ e.kind = "DOMException" /\ e.name = "AbortError"
  \/ e.kind \in {"DOMException", "Error"} /\ e.name = "TimeoutError"

\* The kinds the claim names, in its words.
NamedKindsFormatted ==
  LET e == tool.caught IN
  /\ e.kind = "TickTickRateLimitError"
       => FormattedError = <<"Rate limited. Try again in ">> \o String(e.retryAfter.n)
                           \o <<" seconds.">>
  /\ e.kind = "AuthError" => FormattedError = <<"Authentication failed. ", ReauthGuidance>>
  /\ e.kind = "TickTickApiError"
       => /\ FormattedError = e.message
          /\ SubSeq(FormattedError, 1, Len(String(e.status)) + 1)
               = <<"TickTick API error (">> \o String(e.status)
  /\ e.kind \in {"DOMException", "Error"} /\ IsAbortOrTimeout(e)
       => FormattedError = TimedOutText

\* C27 as stated: every Error of no named kind yields Unexpected error with
\* its message.
C27_OtherErrorsUnexpected ==
  Caught
    => /\ NamedKindsFormatted
       /\ tool.caught.kind \in {"DOMException", "Error", "ZodError"}
          /\ ~IsAbortOrTimeout(tool.caught)
            => FormattedError = <<"Unexpected error: ">> \o tool.caught.message

\* C27: formatToolError goes by the kind of the thrown value: the rate
\* limit kind gives the retry seconds, the auth kind the re-authorization
\* guidance, any other API error its message with the status code, a
\* ZodError the text Invalid input with its first issue, a DOMException
\* named AbortError or an Error named TimeoutError the timed-out text, any
\* other Error the text Unexpected error with its message, and a value that
\* is no Error the text Unexpected error with the value as a string.
C27_FormattedByKind ==
  Caught
    => /\ NamedKindsFormatted
       /\ tool.caught.kind = "ZodError"
            => FormattedError
                 = <<"Invalid input: ">>
                   \o (IF tool.caught.issues = <<>> THEN <<"validation failed">>
                       ELSE tool.caught.issues[1].message)
       /\ tool.caught.kind \in {"DOMException", "Error"} /\ ~IsAbortOrTimeout(tool.caught)
            => FormattedError = <<"Unexpected error: ">> \o tool.caught.message
       /\ tool.caught.kind = "string"
            => FormattedError = <<"Unexpected error: ">> \o tool.caught.value
       /\ tool.caught.kind = "null"
            => FormattedError = <<"Unexpected error: ", "n", "u", "l", "l">>

\* A rate limit error was caught and reported with its seconds.
C27_Witness ==
  /\ Caught
  /\ tool.caught = TickTickRateLimitError(Num(30))
  /\ FormattedError = <<"Rate limited. Try again in ", "3", "0", " seconds.">>

\* The listed projects whose data could not be parsed.
UnparsedProjects ==
  {j \in 1..Len(tool.projects) : ~TickTickProjectDataRawParses(tool.served[j])}

\* The served tasks that fail validation.
InvalidServed ==
  LET all == ServedTasks(tool.served) IN {k \in 1..Len(all) : ~TickTickTaskParses(all[k])}

TasksAnswered == ToolDone /\ tool.name = "ticktick_get_tasks" /\ tool.caught = NotCaught

WithinTtl(g) ==
  /\ ~g.force
  /\ ~g.invalidatedAtCall
  /\ g.calledAt - g.lastDoneAtCall < cache.ttlMs

SatisfiesFilters(task) ==
  /\ task.status = 2 => filt.options.includeCompleted
  /\ filt.options.tag # NULL
       => task.hasTags /\ \E k \in 1..Len(task.tags) : task.tags[k] = filt.options.tag
  /\ filt.days.before >= 0
       => task.dueUtc >= 0 /\ task.dueUtc <= filt.days.before + 86399
  /\ filt.days.after >= 0
       => task.dueUtc >= 0 /\ task.dueUtc >= filt.days.after

C31_EveryCallTerminates ==
  (st["p1"].pc # "idle" /\ st["p1"].op = "request") ~> (st["p1"].pc = "done")

\* ------------------------------------------------- overlapping calls
\* The call is between its start and its outcome.
InFlight(p) == st[p].pc \notin {"idle", "done"}

\* The call has refreshed: its three keychain writes are done.
Refreshed(p) ==
  /\ st[p].pc \in {"fetch", "done"}
  /\ st[p].nRefresh > 0
  /\ st[p].data.access_token.type = "string"
  /\ st[p].outcome.kind \in {"none", "ok", "TickTickApiError"}

\* The stored access_token and expires_at are those of the call's token
\* response.
StoredFrom(p) ==
  /\ store["access_token"] = st[p].data.access_token.s
  /\ store["expires_at"] = String(st[p].nowRefresh + st[p].data.expires_in.n)

\* C32: two calls in flight have never both written access_token, and
\* once two calls have refreshed and nothing is being written the stored
\* access_token and expires_at come from one token response.
C32_NoConcurrentWrites ==
  /\ ~(InFlight("p1") /\ InFlight("p2") /\ st["p1"].nSet > 0 /\ st["p2"].nSet > 0)
  /\ Refreshed("p1") /\ Refreshed("p2") => StoredFrom("p1") \/ StoredFrom("p2")

\* ------------------------------------------------- pending-discovery marker
\* The callers whose discovery is in progress: the sentinel creation is
\* issued and the deferred result is not settled yet.
Discovering == {d \in Callers : caller[d].pc \in {"create", "complete", "persist"}}

\* The callers that attached to deferred result k without being its
\* discoverer and have been settled.
SettledWaiters(k) ==
  {d \in Callers : caller[d].attached = k /\ caller[d].pc = "done"
                   /\ caller[d].io.requests = 0}

\* C33: the pending marker is set exactly while one discovery is in
\* progress and then names that discovery's deferred result; a settled
\* deferred result is no longer the marker, and every caller that
\* attached to it and was settled has the discoverer's value or failure.
C33_MarkerOnlyWhileDiscovering ==
  /\ (pending # 0) <=> (Cardinality(Discovering) = 1)
  /\ \A d \in Discovering : pending = caller[d].attached
  /\ \A k \in 1..Len(promises) :
       promises[k] # NoOutcome =>
         /\ pending # k
         /\ \A d \in Callers :
              caller[d].attached = k /\ caller[d].pc = "done" =>
                caller[d].result = promises[k]

\* A waiter was settled with the failure of the discovery it attached to,
\* and the marker is cleared.
C33_Witness ==
  \E k \in 1..Len(promises) :
    /\ promises[k] = DiscoveryFailed
    /\ SettledWaiters(k) # {}
    /\ \E d \in Callers : caller[d].attached = k /\ caller[d].io.requests > 0
                           /\ caller[d].result = DiscoveryFailed
    /\ pending = 0

\* --------------------------------------------------------------- Keychain
\* C35: a get whose find command ran while a set was overwriting a stored
\* value returned the old or the new value, never null; and after a set
\* that failed the account still holds the value stored before it.
C35_SetAtomicForGet ==
  /\ (kc.get.pc = "done" /\ kc.old # NULL /\ kc.get.setAtFind \in {"delete", "add"})
       => kc.get.result \in {Trim(kc.old), Trim(kc.password)}
  /\ (kc.set.pc = "done" /\ kc.set.result = KeychainError)
       => store[kc.account] = kc.old

\* --------------------------------------------------------- retried attempt
\* The request was answered 401 once and has ended.
RetriedAndFinished(p) == p \in Requests /\ Finished(p) /\ st[p].isRetry

\* The outcome the classification rules give an answered exchange, 401 and
\* 2xx apart.
FailureOutcomeOf(r) ==
  IF r.status = 429 THEN TickTickRateLimitError(RetryAfter(r.retryAfter))
  ELSE TickTickApiError(r.status, r.text)

\* The kinds of failure a refresh can end with: its own AuthError, the
\* rejection of the token fetch, the rejection of a keychain write.
RefreshFailureKinds == {"AuthError", "TypeError", "KeychainError"}

C36_RejectionLeavesCache ==
  cache.pc = "live"
    => \A c \in CacheCallers :
         LET g == cache.get[c] IN
         /\ g.pc = "done" /\ g.result.kind # "ok"
              => /\ g.result = TransportError("TypeError")
                 /\ g.calls = 1
                 /\ g.stateAtEnd = g.stateAtCall
         /\ g.pc # "idle" /\ g.rejectedAtCall /\ g.lastDoneAtCall >= 0 /\ WithinTtl(g)
              => g.pc = "done" /\ g.calls = 0 /\ g.result = Ok(g.lastValueAtCall)

\* A forced get was rejected and the get after it was served the value
\* fetched before.
C36_Witness ==
  /\ cache.pc = "live"
  /\ \E c \in CacheCallers :
       /\ cache.get[c].pc = "done"
       /\ cache.get[c].rejectedAtCall
       /\ cache.get[c].calls = 0
       /\ cache.get[c].result = Ok(JNum(1))
       /\ cache.data = JNum(1)
       /\ cache.fetches = 2

\* ------------------------------------------------ invalidate during a fetch
\* C37: a get without forceRefresh that is served from the cache is never
\* served the value of a fetch that began before an invalidate() which ran
\* before the get.
C37_NoValueFromBeforeInvalidate ==
  cache.pc = "live"
    => \A c \in CacheCallers :
         LET g == cache.get[c] IN
         g.pc = "done" /\ ~g.force /\ g.calls = 0 => ~g.staleAtCall

\* ------------------------------------------------ tasks of every container
\* The container the k-th getProjectData call of ticktick_get_tasks without
\* projectId asked for: the k-th listed project, then the inbox.
ContainerOf(t, k) == IF k <= Len(t.projects) THEN t.projects[k].id ELSE t.inbox

\* The ids of the tasks of an answer that were collected and validate.
TaskIdsOf(data) ==
  IF TickTickProjectDataRawParses(data)
  THEN {data.tasks.v[n].id.s :
          n \in {m \in 1..Len(data.tasks.v) : TickTickTaskParses(data.tasks.v[m])}}
  ELSE {}

\* C38: in the result of ticktick_get_tasks without projectId no task stems
\* from two getProjectData answers for the same container, the inbox being
\* among the listed projects included.
C38_EachContainerCollectedOnce ==
  (TasksAnswered /\ tool.args.projectId = NULL /\ ~tool.result.isError)
    => \A j, k \in 1..Len(tool.served) :
         (j < k /\ ContainerOf(tool, j) = ContainerOf(tool, k))
           => TaskIdsOf(tool.served[j]) \cap TaskIdsOf(tool.served[k])
                \cap {ResultTaskIds[n] : n \in DOMAIN ResultTaskIds} = {}

\* ------------------------------------------------------- authorization CLI
\* The request that settled the promise of the code, when one did.
SettlingRequests ==
  {k \in 1..Len(cli.requests) :
     /\ cli.requests[k].path = "/callback"
     /\ \A j \in 1..(k - 1) : cli.requests[j].path # "/callback"}

\* The flow has not touched the keychain.
NoKeychainWrite == cli.nSet = 0 /\ store = cli.before

\* The keychain is written only after a callback on /callback, with the
\* state of the run and a non-empty code, has resolved the promise and the
\* token exchange has succeeded.
WrittenOnlyAfterExchange(noError(_)) ==
  (cli.pc # "idle" /\ ~NoKeychainWrite)
    => /\ cli.settled = <<"code">>
       /\ cli.exchangeOk
       /\ cli.exchanges = 1
       /\ \E k \in SettlingRequests :
            LET req == cli.requests[k] IN
            /\ noError(req.error)
            /\ req.state = RunState
            /\ Truthy(req.code)
            /\ cli.code = req.code

\* A callback with a non-empty error, another state or no code, and the
\* timer, end the flow with a failure and no keychain write.
FailureWritesNothing ==
  (cli.pc # "idle" /\ cli.settled # <<>> /\ cli.settled # <<"code">>)
    => /\ cli.pc = "exit1"
       /\ cli.promise = "rejected"
       /\ cli.exchanges = 0
       /\ NoKeychainWrite
       /\ cli.settled[1] = "timeout"
            => cli.elapsedMs >= AUTH_TIMEOUT_MS /\ SettlingRequests = {}
       /\ cli.settled[1] # "timeout"
            => \E k \in SettlingRequests :
                 LET req == cli.requests[k] IN
                 \/ Truthy(req.error)
                 \/ req.state # RunState
                 \/ ~Truthy(req.code)

\* The promise of the code settles once, and a handled callback or a fired
\* timer has settled it.
SettlesOnce ==
  cli.pc # "idle"
    => /\ Len(cli.settled) <= 1
       /\ (SettlingRequests # {} \/ (cli.promise # "none" /\ ~cli.timer /\ cli.pc = "exit1"
                                       /\ cli.exchanges = 0))
            => Len(cli.settled) = 1
       /\ cli.exchanges <= 1

\* As stated: the callback that leads to the writes carries no error
\* parameter at all.
C39_TokensOnlyAfterValidCallback ==
  /\ WrittenOnlyAfterExchange(LAMBDA e : e = NULL)
  /\ FailureWritesNothing
  /\ SettlesOnce

\* C39: tokens are written to the keychain only after a callback on
\* /callback with no error parameter or an empty one, the state of the run
\* and a non-empty code, followed by a successful token exchange; a callback
\* with a non-empty error parameter, another state or no code, and the expiry
\* of the 120-second timer, end the flow with a failure and no keychain
\* write; and the flow settles exactly once.
C39_TokensOnlyAfterAcceptedCallback ==
  /\ WrittenOnlyAfterExchange(LAMBDA e : ~Truthy(e))
  /\ FailureWritesNothing
  /\ SettlesOnce

\* A request for another path was answered 404, then a valid callback
\* resolved the code, the exchange succeeded and the four keychain writes
\* were made.
C39_Witness ==
  /\ cli.pc = "complete"
  /\ cli.nSet = 4
  /\ cli.settled = <<"code">>
  /\ cli.settleCalls = 1
  /\ Len(cli.requests) = 2
  /\ cli.requests[1].path = "/"
  /\ store["access_token"] = <<"B">>
  /\ store["expires_at"] = String(cli.nowAt + 3600)

====
